---- MODULE Spec2Model ----
(***************************************************************************)
(* Model of the ingestion pipeline of internal/processor/processor.go:     *)
(* ProcessDataset (caller), the CSV reader goroutine (readCSV), the        *)
(* aggregation workers (aggregateWorker), the barrier goroutine            *)
(* (wg.Wait / close(done)), the publish step under p.mu, and the read      *)
(* accessors used by the API layer.                                        *)
(*                                                                         *)
(* Amounts (float64 in the source) are modelled as integers; time.Now()    *)
(* is a logical clock.                                                     *)
(***************************************************************************)
EXTENDS Integers, Sequences, FiniteSets, TLC

(***************************************************************************)
(* Bounds of the model.                                                    *)
(***************************************************************************)
\* longest source (data rows after the header) of the pipeline runs
MaxRows == 3
\* largest value of runtime.NumCPU()
MaxWorkers == 2
\* number of ProcessDataset calls made on one store, where calls repeat
RerunMaxRuns == 2
\* longest source of the repeated runs
RerunMaxRows == 2
\* largest runtime.NumCPU() of the runs observed by concurrent API clients
ConcMaxWorkers == 1
\* capacity of transactionCh in the model (1000 in the source, scaled down
\* so that a full queue is reached)
QueueCap == 2
\* longest source of the runs that are observed by concurrent API clients
ConcMaxRows == 1
\* longest sequence of records folded where the merge rules are examined
FoldMaxRows == 3
\* longest source of the runs on a store that may hold the sample data
SampleMaxRows == 2
\* longest source and largest runtime.NumCPU() of the runs in which the four
\* updates of a record are separate steps
StepMaxRows == 2
StepMaxWorkers == 2
\* longest source and largest runtime.NumCPU() of the caller's run where a
\* second ProcessDataset call runs beside it
RivalMaxRows == 1
RivalMaxWorkers == 1
\* largest limit passed to sortTopProducts and sortTopRegions on their own,
\* besides the limits ProcessDataset passes
SortMaxLimit == 2
\* data rows of a file loaded under several header rows
HeaderMaxRows == 2

(***************************************************************************)
(* Program constants.                                                      *)
(***************************************************************************)
\* capacity of errorCh
ErrorChCap == 1
\* limit passed to sortTopProducts
TopProductsLimit == 20
\* limit passed to sortTopRegions
TopRegionsLimit == 30

(***************************************************************************)
(* Source rows.  A data row is the sequence of cells csv.Reader returns.   *)
(* A text cell and a date cell are the string of the file; a numeric cell  *)
(* says whether strconv accepts its trimmed text and with which value.     *)
(* The columns are those the aggregation reads, together with price and    *)
(* added_date; the text columns transaction_id, user_id, product_id and    *)
(* category are parsed as country is and are left out.  BadRow is a row on *)
(* which reader.Read returns a csv.ParseError (wrong number of fields).    *)
(***************************************************************************)
Header == <<"country", "product_name", "region", "total_price", "quantity",
            "stock_quantity", "transaction_date", "price", "added_date">>

Num(n) == [ok |-> TRUE, v |-> n]
NotNum == [ok |-> FALSE, v |-> 0]

Pad2(n) == IF n < 10 THEN "0" \o ToString(n) ELSE ToString(n)

\* the text of the first day of a month, written year-month-day
Date(y, m) == ToString(y) \o "-" \o Pad2(m) \o "-01"
NotDate == "n/a"

BadRow == <<>>

\* three rows of one product with the stock readings 100, 0 and 150; the
\* second has a total price, a price and a date that do not parse
Row100 == <<"USA", "Laptop", "North America", Num(1000), Num(2), Num(100),
            Date(2024, 1), Num(500), Date(2023, 1)>>
Row0 == <<"USA", "Laptop", "North America", NotNum, Num(1), Num(0),
          NotDate, NotNum, NotDate>>
Row150 == <<"UK", "Laptop", "Europe", Num(800), Num(1), Num(150),
            Date(2024, 2), Num(800), Date(2024, 1)>>

\* rows for the merge rules: a second USA/Laptop sale with a negative stock
\* reading and the same month of another year, a sale of another product
\* whose price does not parse while its total price does, and two sales
\* whose country and product names contain a hyphen
RowReturn == <<"USA", "Laptop", "North America", Num(500), Num(1), Num(-5),
               Date(2023, 1), Num(500), NotDate>>
RowPhone == <<"UK", "Phone", "Europe", Num(800), Num(1), Num(50),
              Date(2024, 2), NotNum, Date(2024, 2)>>
RowHyphenA == <<"A-B", "C", "Europe", Num(300), Num(3), Num(7),
                NotDate, Num(100), NotDate>>
RowHyphenB == <<"A", "B-C", "Asia", NotNum, Num(1), Num(0),
                Date(2024, 1), Num(40), Date(2024, 1)>>

SourceItems == {Row100, Row0, Row150, BadRow}
FoldItems == {Row100, Row0, RowReturn, RowPhone, RowHyphenA, RowHyphenB}
RerunItems == {Row100, Row150, BadRow}
ConcItems == {Row100, BadRow}

RECURSIVE SeqsUpTo(_, _)
SeqsUpTo(S, n) ==
    IF n = 0 THEN {<<>>}
    ELSE LET shorter == SeqsUpTo(S, n - 1)
         IN  shorter \cup {Append(s, x) : s \in {t \in shorter : Len(t) = n - 1}, x \in S}

(***************************************************************************)
(* strings.TrimSpace.  The strings of the model that carry white space at  *)
(* their ends are listed with what is left of them; every other string of  *)
(* the model has none and is returned as it is.                            *)
(***************************************************************************)
Trimmed ==
    (" USA " :> "USA") @@ (" 2024-01-15 " :> "2024-01-15") @@ ("  " :> "")
        @@ (" region " :> "region") @@ (" total_price" :> "total_price")
        @@ ("quantity " :> "quantity") @@ (" price " :> "price")
        @@ ("category " :> "category")

TrimSpace(s) == IF s \in DOMAIN Trimmed THEN Trimmed[s] ELSE s

(***************************************************************************)
(* strings.ToLower.  The strings of the model that carry capital letters   *)
(* are listed with their lower-case form; every other string of the model  *)
(* has none and is returned as it is.                                      *)
(***************************************************************************)
Lowered ==
    ("Country" :> "country") @@ ("PRODUCT_NAME" :> "product_name")
        @@ (" Total_Price" :> " total_price") @@ ("Quantity " :> "quantity ")
        @@ ("STOCK_QUANTITY" :> "stock_quantity")
        @@ ("Transaction_Date" :> "transaction_date") @@ (" PRICE " :> " price ")
        @@ ("Added_Date" :> "added_date") @@ ("Category " :> "category ")

ToLower(s) == IF s \in DOMAIN Lowered THEN Lowered[s] ELSE s

(***************************************************************************)
(* readCSV, lines 123-127: header name, in lower case and trimmed -> index *)
(* (a later duplicate wins).                                               *)
(***************************************************************************)
\* the header map keyed by the names as they are written
headerMapAsWritten(headers) ==
    [name \in {headers[i] : i \in DOMAIN headers} |->
        CHOOSE i \in DOMAIN headers :
            /\ headers[i] = name
            /\ \A j \in DOMAIN headers : headers[j] = name => j <= i]

headerMap(headers) ==
    LET key == [i \in DOMAIN headers |-> TrimSpace(ToLower(headers[i]))]
    IN  [name \in {key[i] : i \in DOMAIN headers} |->
            CHOOSE i \in DOMAIN headers :
                /\ key[i] = name
                /\ \A j \in DOMAIN headers : key[j] = name => j <= i]

\* the header map of a file whose first row is Header
HeaderIndexes == headerMap(Header)

\* the cell of a row under a column of Header
Cell(row, name) == row[HeaderIndexes[name]]


(***************************************************************************)
(* time.Parse.  A text is read as runs of digits (their number and their   *)
(* value) and the characters between them; a layout is the sequence of its *)
(* elements.  time.Parse accepts a text when every element of the layout   *)
(* meets its part of the text, nothing is left over, and the day exists in *)
(* the month.  The result keeps the year, the month and the day; the time  *)
(* of day of the second layout is left out.                                *)
(***************************************************************************)
Digits(d, v) == [d |-> d, v |-> v, s |-> ""]
Mark(s) == [d |-> 0, v |-> 0, s |-> s]

YearFirst(y, sep, m, d) == <<Digits(4, y), Mark(sep), Digits(2, m), Mark(sep), Digits(2, d)>>
MonthFirst(m, sep, d, y) == <<Digits(2, m), Mark(sep), Digits(2, d), Mark(sep), Digits(4, y)>>

\* the date texts of the model, as time.Parse reads them
DateTexts ==
       (Date(2024, 1) :> YearFirst(2024, "-", 1, 1))
    @@ (Date(2024, 2) :> YearFirst(2024, "-", 2, 1))
    @@ (Date(2023, 1) :> YearFirst(2023, "-", 1, 1))
    @@ ("2024-01-15" :> YearFirst(2024, "-", 1, 15))
    @@ ("2024-01-15 10:30:00" :>
            YearFirst(2024, "-", 1, 15) \o
            <<Mark(" "), Digits(2, 10), Mark(":"), Digits(2, 30), Mark(":"), Digits(2, 0)>>)
    @@ ("01/15/2024" :> MonthFirst(1, "/", 15, 2024))
    @@ ("03-04-2024" :> MonthFirst(3, "-", 4, 2024))
    @@ ("2024/01/15" :> YearFirst(2024, "/", 1, 15))
    @@ ("15/01/2024" :> MonthFirst(15, "/", 1, 2024))
    @@ ("2023-02-29" :> YearFirst(2023, "-", 2, 29))
    @@ ("2024-02-29" :> YearFirst(2024, "-", 2, 29))
    @@ ("2024-1-5" :> <<Digits(4, 2024), Mark("-"), Digits(1, 1), Mark("-"), Digits(1, 5)>>)
    @@ ("2024-01-15T10:30:00Z" :>
            YearFirst(2024, "-", 1, 15) \o
            <<Mark("T"), Digits(2, 10), Mark(":"), Digits(2, 30), Mark(":"), Digits(2, 0),
              Mark("Z")>>)
    @@ (" 2024-01-15 " :> <<Mark(" ")>> \o YearFirst(2024, "-", 1, 15) \o <<Mark(" ")>>)
    @@ ("" :> <<>>)

\* a text the table does not list holds no digits
Read(text) == IF text \in DOMAIN DateTexts THEN DateTexts[text] ELSE <<Mark(text)>>

\* parseTransaction, lines 213-219 and 232-238
formats ==
    << <<"2006", "-", "01", "-", "02">>,
       <<"2006", "-", "01", "-", "02", " ", "15", ":", "04", ":", "05">>,
       <<"01", "/", "02", "/", "2006">>,
       <<"01", "-", "02", "-", "2006">>,
       <<"2006", "/", "01", "/", "02">> >>

Meets(element, part) ==
    CASE element = "2006" -> part.d = 4
      [] element = "01" -> part.d = 2 /\ part.v \in 1..12
      [] element = "02" -> part.d = 2
      [] element = "15" -> part.d \in {1, 2} /\ part.v \in 0..23
      [] element \in {"04", "05"} -> part.d = 2 /\ part.v \in 0..59
      [] OTHER -> part.d = 0 /\ part.s = element

ValueAt(layout, parts, element) ==
    parts[CHOOSE i \in DOMAIN layout : layout[i] = element].v

daysIn(m, y) ==
    IF m = 2
    THEN IF y % 4 = 0 /\ (y % 100 # 0 \/ y % 400 = 0) THEN 29 ELSE 28
    ELSE IF m \in {4, 6, 9, 11} THEN 30 ELSE 31

Accepts(layout, parts) ==
    /\ Len(parts) = Len(layout)
    /\ \A i \in DOMAIN layout : Meets(layout[i], parts[i])
    /\ ValueAt(layout, parts, "02") \in
           1..daysIn(ValueAt(layout, parts, "01"), ValueAt(layout, parts, "2006"))

Parsed(layout, parts) ==
    [year  |-> ValueAt(layout, parts, "2006"),
     month |-> ValueAt(layout, parts, "01"),
     day   |-> ValueAt(layout, parts, "02")]

\* the zero time.Time
ZeroDate == [year |-> 1, month |-> 1, day |-> 1]

\* the loop of lines 220-225 and 239-244 from the k-th layout on: the first
\* layout that accepts the text gives the date and ends the loop
RECURSIVE TryFormats(_, _)
TryFormats(dateStr, k) ==
    IF k > Len(formats) THEN ZeroDate
    ELSE IF Accepts(formats[k], Read(dateStr)) THEN Parsed(formats[k], Read(dateStr))
    ELSE TryFormats(dateStr, k + 1)

(***************************************************************************)
(* parseTransaction: a field whose column is missing from the header map   *)
(* or lies beyond the record keeps its zero value; a numeric cell that     *)
(* does not parse is 0; a date no layout accepts is the zero time          *)
(* (year 1, January 1).  It never returns an error.                        *)
(***************************************************************************)
\* HasCell that takes the last cell of a record for missing
HasCellBeforeLast(record, hm, name) == name \in DOMAIN hm /\ hm[name] < Len(record)

HasCell(record, hm, name) == name \in DOMAIN hm /\ hm[name] <= Len(record)

TextField(record, hm, name) ==
    IF HasCell(record, hm, name) THEN TrimSpace(record[hm[name]]) ELSE ""

\* NumField that keeps -1 for a cell that does not parse
NumFieldMarksFailure(record, hm, name) ==
    IF HasCell(record, hm, name)
    THEN IF record[hm[name]].ok THEN record[hm[name]].v ELSE -1
    ELSE 0

NumField(record, hm, name) ==
    IF HasCell(record, hm, name) /\ record[hm[name]].ok
    THEN record[hm[name]].v ELSE 0

\* DateField that hands the cell to time.Parse untrimmed
DateFieldUntrimmed(record, hm, name) ==
    IF HasCell(record, hm, name)
    THEN TryFormats(record[hm[name]], 1)
    ELSE ZeroDate

DateField(record, hm, name) ==
    IF HasCell(record, hm, name)
    THEN TryFormats(TrimSpace(record[hm[name]]), 1)
    ELSE ZeroDate

parseTransaction(record, hm) ==
    [ Country         |-> TextField(record, hm, "country"),
      ProductName     |-> TextField(record, hm, "product_name"),
      Region          |-> TextField(record, hm, "region"),
      Price           |-> NumField(record, hm, "price"),
      TotalPrice      |-> NumField(record, hm, "total_price"),
      Quantity        |-> NumField(record, hm, "quantity"),
      StockQuantity   |-> NumField(record, hm, "stock_quantity"),
      TransactionDate |-> DateField(record, hm, "transaction_date"),
      AddedDate       |-> DateField(record, hm, "added_date") ]

NoTx == parseTransaction(<<>>, headerMap(<<>>))

(***************************************************************************)
(* aggregateWorker, lines 262-314: the four folds of one transaction.      *)
(***************************************************************************)
MonthNames == <<"January", "February", "March", "April", "May", "June", "July",
                "August", "September", "October", "November", "December">>

countryKey(t) == t.Country \o "-" \o t.ProductName

\* a month key that leaves the year out
monthKeyOfMonth(t) == Pad2(t.TransactionDate.month)

monthKey(t) == ToString(t.TransactionDate.year) \o "-" \o Pad2(t.TransactionDate.month)

\* foldCountry with a revenue that is replaced, not added to
foldCountryLastRevenue(m, t) ==
    LET k == countryKey(t) IN
    IF k \in DOMAIN m
    THEN [m EXCEPT ![k].TotalRevenue = t.TotalPrice,
                   ![k].TransactionCount = @ + 1]
    ELSE m @@ (k :> [Country |-> t.Country, ProductName |-> t.ProductName,
                     TotalRevenue |-> t.TotalPrice, TransactionCount |-> 1])

\* foldCountry with a transaction count that adds up the quantities
foldCountryByQuantity(m, t) ==
    LET k == countryKey(t) IN
    IF k \in DOMAIN m
    THEN [m EXCEPT ![k].TotalRevenue = @ + t.TotalPrice,
                   ![k].TransactionCount = @ + t.Quantity]
    ELSE m @@ (k :> [Country |-> t.Country, ProductName |-> t.ProductName,
                     TotalRevenue |-> t.TotalPrice, TransactionCount |-> t.Quantity])

foldCountry(m, t) ==
    LET k == countryKey(t) IN
    IF k \in DOMAIN m
    THEN [m EXCEPT ![k].TotalRevenue = @ + t.TotalPrice,
                   ![k].TransactionCount = @ + 1]
    ELSE m @@ (k :> [Country |-> t.Country, ProductName |-> t.ProductName,
                     TotalRevenue |-> t.TotalPrice, TransactionCount |-> 1])

foldProduct(m, t) ==
    LET k == t.ProductName IN
    IF k \in DOMAIN m
    THEN [m EXCEPT ![k].PurchaseCount = @ + 1,
                   ![k].CurrentStock = IF t.StockQuantity > 0 THEN t.StockQuantity ELSE @]
    ELSE m @@ (k :> [ProductName |-> t.ProductName, PurchaseCount |-> 1,
                     CurrentStock |-> t.StockQuantity])

foldMonth(m, t) ==
    LET k == monthKey(t) IN
    IF k \in DOMAIN m
    THEN [m EXCEPT ![k].TotalSales = @ + t.TotalPrice,
                   ![k].SalesVolume = @ + t.Quantity]
    ELSE m @@ (k :> [Month |-> MonthNames[t.TransactionDate.month],
                     Year |-> t.TransactionDate.year,
                     TotalSales |-> t.TotalPrice, SalesVolume |-> t.Quantity])

\* foldRegion with a count of records in place of the items sold
foldRegionCountsRecords(m, t) ==
    LET k == t.Region IN
    IF k \in DOMAIN m
    THEN [m EXCEPT ![k].TotalRevenue = @ + t.TotalPrice,
                   ![k].ItemsSold = @ + 1]
    ELSE m @@ (k :> [Region |-> t.Region, TotalRevenue |-> t.TotalPrice,
                     ItemsSold |-> 1])

foldRegion(m, t) ==
    LET k == t.Region IN
    IF k \in DOMAIN m
    THEN [m EXCEPT ![k].TotalRevenue = @ + t.TotalPrice,
                   ![k].ItemsSold = @ + t.Quantity]
    ELSE m @@ (k :> [Region |-> t.Region, TotalRevenue |-> t.TotalPrice,
                     ItemsSold |-> t.Quantity])

EmptyMap == [k \in {} |-> 0]

\* records the workers have folded into the dictionaries
RECURSIVE FoldedCount(_)
FoldedCount(m) ==
    IF DOMAIN m = {} THEN 0
    ELSE LET k == CHOOSE key \in DOMAIN m : TRUE
         IN  m[k].TransactionCount + FoldedCount([j \in DOMAIN m \ {k} |-> m[j]])

(***************************************************************************)
(* The sorting functions.  The slice is filled in map iteration order      *)
(* (unspecified in Go) and sorted with sort.Slice (not stable), so the     *)
(* result is any arrangement of the entries that the less function         *)
(* accepts as sorted; each operator is the set of the possible results.    *)
(***************************************************************************)
Arrangements(m) ==
    LET n == Cardinality(DOMAIN m) IN
    {[i \in 1..n |-> m[ks[i]]] :
        ks \in {f \in [1..n -> DOMAIN m] : \A k \in DOMAIN m : \E i \in 1..n : f[i] = k}}

Truncate(s, limit) == IF Len(s) > limit THEN SubSeq(s, 1, limit) ELSE s

lessRevenue(a, b) == a.TotalRevenue > b.TotalRevenue
lessPurchase(a, b) == a.PurchaseCount > b.PurchaseCount
lessMonthly(a, b) ==
    IF a.Year # b.Year THEN a.Year > b.Year ELSE a.TotalSales > b.TotalSales

\* sortCountryRevenues with the comparison turned round
sortCountryRevenuesAscending(m) ==
    {s \in Arrangements(m) :
        \A i, j \in DOMAIN s : i < j => ~lessRevenue(s[i], s[j])}

\* sortTopProducts that cuts the slice before it sorts it
sortTopProductsCutFirst(m, limit) ==
    {s \in {Truncate(a, limit) : a \in Arrangements(m)} :
        \A i, j \in DOMAIN s : i < j => ~lessPurchase(s[j], s[i])}

\* sortMonthlySales that compares the total sales only
sortMonthlySalesByTotal(m) ==
    {s \in Arrangements(m) :
        \A i, j \in DOMAIN s : i < j => ~(s[j].TotalSales > s[i].TotalSales)}

\* sortTopRegions that never cuts the slice
sortTopRegionsUncut(m, limit) ==
    {a \in Arrangements(m) :
        \A i, j \in DOMAIN a : i < j => ~lessRevenue(a[j], a[i])}

\* sort.Slice leaves no pair that its less function orders the other way round
sortCountryRevenues(m) ==
    {s \in Arrangements(m) :
        \A i, j \in DOMAIN s : i < j => ~lessRevenue(s[j], s[i])}

sortTopProducts(m, limit) ==
    {Truncate(s, limit) :
        s \in {a \in Arrangements(m) :
                  \A i, j \in DOMAIN a : i < j => ~lessPurchase(a[j], a[i])}}

sortMonthlySales(m) ==
    {s \in Arrangements(m) :
        \A i, j \in DOMAIN s : i < j => ~lessMonthly(s[j], s[i])}

sortTopRegions(m, limit) ==
    {Truncate(s, limit) :
        s \in {a \in Arrangements(m) :
                  \A i, j \in DOMAIN a : i < j => ~lessRevenue(a[j], a[i])}}

(***************************************************************************)
(* State.                                                                  *)
(***************************************************************************)
VARIABLES
    src,            \* the data rows of the file (after the header), fixed
    numWorkers,     \* runtime.NumCPU(), fixed
    call,           \* the last call of a function on its own: arguments and result
    runs,           \* ProcessDataset calls made so far
    clock,          \* logical time.Now()
    start,          \* ProcessDataset's start
    callerPc,       \* position of the caller inside ProcessDataset
    lastResult,     \* what the last returned call returned: "none", "ok", "err"
    readerPc,       \* position of the reader goroutine
    pos,            \* data rows consumed by csv.Reader
    transaction,    \* readCSV's parsed transaction, about to be sent
    transactionCh,  \* buffer of the work queue
    closed,         \* transactionCh is closed
    errorCh,        \* buffer of the error channel
    done,           \* the done channel is closed
    wg,             \* counter of the WaitGroup
    barrierPc,      \* position of the goroutine running wg.Wait(); close(done)
    workerPc,       \* position of each worker
    workerTx,       \* the transaction each worker received
    mu,             \* aggregation mutex: 0 free, else the worker holding it
    countryMap, productMap, monthMap, regionMap,
    dashboardData,  \* the one DashboardData object p.dashboardData points to
    rwWriter,       \* p.mu is write-locked
    rwReaders,      \* number of read locks held on p.mu
    clientPc,       \* position of the API client
    accessed,       \* what the client's last view accessor returned
    observed,       \* fields the client read through the GetDashboardData pointer
    peerPc,         \* position of a second API client, inside a view accessor
    response,       \* the response a view handler of the API is putting together
    rival,          \* a ProcessDataset call running beside the caller's: its
                    \* position and its own dictionaries
    main,           \* func main: its position and whether a data file is configured
    storeAtCall,    \* history: dashboardData when the current call began
    headerFailed,   \* history: the header read of the current run failed
    ioFailed,       \* history: a row read of the current run failed with an I/O error
    published       \* history: the snapshots completed by publish steps

pipeVars == <<src, numWorkers, call, runs, clock, start, callerPc, lastResult, readerPc, pos,
              transaction, transactionCh, closed, errorCh, done, wg, barrierPc,
              workerPc, workerTx, mu, countryMap, productMap, monthMap, regionMap>>
storeVars == <<dashboardData, rwWriter, rwReaders>>
clientVars == <<clientPc, accessed, observed, peerPc, response, rival, main>>
histVars == <<storeAtCall, headerFailed, ioFailed, published>>
vars == <<pipeVars, storeVars, clientVars, histVars>>

Workers == 1..numWorkers

ViewFields == <<"CountryRevenues", "TopProducts", "MonthlySales", "TopRegions">>
DataFields == ViewFields \o <<"LastUpdated", "ProcessingDuration", "RecordCount">>

(***************************************************************************)
(* New, lines 26-35.                                                       *)
(***************************************************************************)
\* New that starts the country-product view with a placeholder row
NewWithPlaceholder ==
    [ CountryRevenues |-> <<[Country |-> "", ProductName |-> "",
                            TotalRevenue |-> 0, TransactionCount |-> 0]>>,
      TopProducts |-> <<>>, MonthlySales |-> <<>>,
      TopRegions |-> <<>>, LastUpdated |-> 0, ProcessingDuration |-> 0,
      RecordCount |-> 0 ]

New ==
    [ CountryRevenues |-> <<>>, TopProducts |-> <<>>, MonthlySales |-> <<>>,
      TopRegions |-> <<>>, LastUpdated |-> 0, ProcessingDuration |-> 0,
      RecordCount |-> 0 ]

NoCall == [fn |-> "none"]

NoAccess == [kind |-> "none", value |-> <<>>, duringRun |-> FALSE, previous |-> <<>>]

NoResponse == [stage |-> "none"]

NoMain == [pc |-> "none", dataFile |-> FALSE]

NoRival == [pc |-> "idle", next |-> 0, start |-> 0,
            countryMap |-> EmptyMap, productMap |-> EmptyMap,
            monthMap |-> EmptyMap, regionMap |-> EmptyMap]

InitWith(items, maxRows, maxWorkers) ==
    /\ src \in SeqsUpTo(items, maxRows)
    /\ numWorkers \in 1..maxWorkers
    /\ call = NoCall
    /\ runs = 0 /\ clock = 0 /\ start = 0
    /\ callerPc = "idle" /\ lastResult = "none"
    /\ readerPc = "none" /\ pos = 0 /\ transaction = NoTx
    /\ transactionCh = <<>> /\ closed = FALSE /\ errorCh = <<>> /\ done = FALSE
    /\ wg = 0 /\ barrierPc = "none"
    /\ workerPc = [i \in Workers |-> "none"]
    /\ workerTx = [i \in Workers |-> NoTx]
    /\ mu = 0
    /\ countryMap = EmptyMap /\ productMap = EmptyMap
    /\ monthMap = EmptyMap /\ regionMap = EmptyMap
    /\ dashboardData = New /\ rwWriter = FALSE /\ rwReaders = 0
    /\ clientPc = "idle"
    /\ accessed = NoAccess
    /\ observed = <<>>
    /\ peerPc = "idle"
    /\ response = NoResponse
    /\ rival = NoRival
    /\ main = NoMain
    /\ storeAtCall = New /\ headerFailed = FALSE /\ ioFailed = FALSE
    /\ published = <<>>

Init == InitWith(SourceItems, MaxRows, MaxWorkers)

(***************************************************************************)
(* ProcessDataset, lines 38-110: the caller.                               *)
(***************************************************************************)
callerOnly == <<src, numWorkers, call, runs, start, lastResult, readerPc, pos, transaction,
                transactionCh, closed, errorCh, done, wg, barrierPc, workerPc, workerTx,
                mu, countryMap, productMap, monthMap, regionMap>>

\* The goroutines of a run touch only that run's channels and maps, of which
\* there is one set here: the store is called again once they are gone.
Quiescent ==
    /\ readerPc \in {"none", "done"}
    /\ barrierPc \in {"none", "done"}
    /\ \A i \in Workers : workerPc[i] \in {"none", "exit"}

\* the store's owner calls ProcessDataset once more
NextCall ==
    /\ callerPc = "returned"
    /\ runs < RerunMaxRuns
    /\ Quiescent
    /\ callerPc' = "idle"
    /\ UNCHANGED <<callerOnly, clock, storeVars, clientVars, histVars>>

\* lines 41-44: os.Open fails.
ProcessDatasetOpenFail ==
    /\ callerPc = "idle"
    /\ runs' = runs + 1
    /\ clock' = clock + 1
    /\ start' = clock'
    /\ lastResult' = "err"
    /\ callerPc' = "returned"
    /\ storeAtCall' = dashboardData
    /\ headerFailed' = FALSE /\ ioFailed' = FALSE
    /\ UNCHANGED <<src, numWorkers, call, readerPc, pos, transaction, transactionCh,
                   closed, errorCh, done, wg, barrierPc, workerPc, workerTx, mu,
                   countryMap, productMap, monthMap, regionMap, published>>
    /\ UNCHANGED <<storeVars, clientVars>>

\* lines 39-87: the file opens; channels, maps, workers, reader and barrier
\* goroutines are created; the caller reaches the select.
ProcessDatasetStart ==
    /\ callerPc = "idle"
    /\ runs' = runs + 1
    /\ clock' = clock + 1
    /\ start' = clock'
    /\ transactionCh' = <<>> /\ closed' = FALSE
    /\ errorCh' = <<>> /\ done' = FALSE
    /\ countryMap' = EmptyMap /\ productMap' = EmptyMap
    /\ monthMap' = EmptyMap /\ regionMap' = EmptyMap
    /\ wg' = numWorkers
    /\ mu' = 0
    /\ workerPc' = [i \in Workers |-> "recv"]
    /\ workerTx' = [i \in Workers |-> NoTx]
    /\ readerPc' = "header" /\ pos' = 0 /\ transaction' = NoTx
    /\ barrierPc' = "wait"
    /\ callerPc' = "select"
    /\ storeAtCall' = dashboardData
    /\ headerFailed' = FALSE /\ ioFailed' = FALSE
    /\ UNCHANGED <<src, numWorkers, call, lastResult, published>>
    /\ UNCHANGED <<storeVars, clientVars>>

\* SelectError with the store reset on the error path
SelectErrorClearsStore ==
    /\ callerPc = "select"
    /\ errorCh # <<>>
    /\ errorCh' = Tail(errorCh)
    /\ lastResult' = "err"
    /\ callerPc' = "returned"
    /\ dashboardData' = New
    /\ UNCHANGED <<src, numWorkers, call, runs, clock, start, readerPc, pos, transaction,
                   transactionCh, closed, done, wg, barrierPc, workerPc, workerTx, mu,
                   countryMap, productMap, monthMap, regionMap>>
    /\ UNCHANGED <<rwWriter, rwReaders, clientVars, histVars>>

\* lines 90-92: the select takes the error.
SelectError ==
    /\ callerPc = "select"
    /\ errorCh # <<>>
    /\ errorCh' = Tail(errorCh)
    /\ lastResult' = "err"
    /\ callerPc' = "returned"
    /\ UNCHANGED <<src, numWorkers, call, runs, clock, start, readerPc, pos, transaction,
                   transactionCh, closed, done, wg, barrierPc, workerPc, workerTx, mu,
                   countryMap, productMap, monthMap, regionMap>>
    /\ UNCHANGED <<storeVars, clientVars, histVars>>

\* lines 90, 93-95: the select takes the closed done channel.  When both
\* channels are ready Go's select picks either case.
SelectDone ==
    /\ callerPc = "select"
    /\ done
    /\ callerPc' = "lock"
    /\ UNCHANGED <<src, numWorkers, call, runs, clock, start, lastResult, readerPc, pos,
                   transaction, transactionCh, closed, errorCh, done, wg, barrierPc,
                   workerPc, workerTx, mu, countryMap, productMap, monthMap, regionMap>>
    /\ UNCHANGED <<storeVars, clientVars, histVars>>

\* line 98: p.mu.Lock() announces the writer (new read locks now wait) ...
PublishLock ==
    /\ callerPc = "lock"
    /\ ~rwWriter
    /\ callerPc' = "lockwait"
    /\ UNCHANGED <<callerOnly, clock, storeVars, clientVars, histVars>>

\* ... and returns once the read locks held are released.
PublishLockAcquired ==
    /\ callerPc = "lockwait"
    /\ rwReaders = 0
    /\ rwWriter' = TRUE
    /\ callerPc' = "pubCountry"
    /\ UNCHANGED <<callerOnly, clock, dashboardData, rwReaders, clientVars, histVars>>

\* line 99
PublishCountryRevenues ==
    /\ callerPc = "pubCountry"
    /\ \E view \in sortCountryRevenues(countryMap) :
          dashboardData' = [dashboardData EXCEPT !.CountryRevenues = view]
    /\ callerPc' = "pubProducts"
    /\ UNCHANGED <<callerOnly, clock, rwWriter, rwReaders, clientVars, histVars>>

\* line 100
PublishTopProducts ==
    /\ callerPc = "pubProducts"
    /\ \E view \in sortTopProducts(productMap, TopProductsLimit) :
          dashboardData' = [dashboardData EXCEPT !.TopProducts = view]
    /\ callerPc' = "pubMonthly"
    /\ UNCHANGED <<callerOnly, clock, rwWriter, rwReaders, clientVars, histVars>>

\* line 101
PublishMonthlySales ==
    /\ callerPc = "pubMonthly"
    /\ \E view \in sortMonthlySales(monthMap) :
          dashboardData' = [dashboardData EXCEPT !.MonthlySales = view]
    /\ callerPc' = "pubRegions"
    /\ UNCHANGED <<callerOnly, clock, rwWriter, rwReaders, clientVars, histVars>>

\* line 102
PublishTopRegions ==
    /\ callerPc = "pubRegions"
    /\ \E view \in sortTopRegions(regionMap, TopRegionsLimit) :
          dashboardData' = [dashboardData EXCEPT !.TopRegions = view]
    /\ callerPc' = "pubUpdated"
    /\ UNCHANGED <<callerOnly, clock, rwWriter, rwReaders, clientVars, histVars>>

\* line 103
PublishLastUpdated ==
    /\ callerPc = "pubUpdated"
    /\ clock' = clock + 1
    /\ dashboardData' = [dashboardData EXCEPT !.LastUpdated = clock']
    /\ callerPc' = "pubDuration"
    /\ UNCHANGED <<callerOnly, rwWriter, rwReaders, clientVars, histVars>>

\* line 104
PublishProcessingDuration ==
    /\ callerPc = "pubDuration"
    /\ dashboardData' = [dashboardData EXCEPT !.ProcessingDuration = clock - start]
    /\ callerPc' = "pubCount"
    /\ UNCHANGED <<callerOnly, clock, rwWriter, rwReaders, clientVars, histVars>>

\* PublishRecordCount that counts the transactions folded
PublishRecordCountOfRows ==
    /\ callerPc = "pubCount"
    /\ dashboardData' = [dashboardData EXCEPT !.RecordCount = FoldedCount(countryMap)]
    /\ published' = Append(published, [data |-> dashboardData', readerFailed |-> headerFailed,
                                       by |-> "caller"])
    /\ callerPc' = "unlock"
    /\ UNCHANGED <<callerOnly, clock, rwWriter, rwReaders, clientVars,
                   storeAtCall, headerFailed, ioFailed>>

\* line 105: the last write of the publish step completes the snapshot.
PublishRecordCount ==
    /\ callerPc = "pubCount"
    /\ dashboardData' = [dashboardData EXCEPT !.RecordCount = Cardinality(DOMAIN countryMap)]
    /\ published' = Append(published, [data |-> dashboardData', readerFailed |-> headerFailed,
                                       by |-> "caller"])
    /\ callerPc' = "unlock"
    /\ UNCHANGED <<callerOnly, clock, rwWriter, rwReaders, clientVars,
                   storeAtCall, headerFailed, ioFailed>>

\* lines 106-109
PublishUnlock ==
    /\ callerPc = "unlock"
    /\ rwWriter' = FALSE
    /\ lastResult' = "ok"
    /\ callerPc' = "returned"
    /\ UNCHANGED <<src, numWorkers, call, runs, clock, start, readerPc, pos, transaction,
                   transactionCh, closed, errorCh, done, wg, barrierPc, workerPc, workerTx,
                   mu, countryMap, productMap, monthMap, regionMap>>
    /\ UNCHANGED <<dashboardData, rwReaders, clientVars, histVars>>

(***************************************************************************)
(* A second ProcessDataset call on the same store, running beside the      *)
(* caller's.  Its channels, mutex and dictionaries are locals of the call  *)
(* (lines 48-59), so all its goroutines do before the publish step is      *)
(* build its own dictionaries; it publishes as the caller does, one field  *)
(* after the other under p.mu.                                             *)
(***************************************************************************)
\* the rows of the file the second call reads
RivalSource == <<RowPhone, RowReturn>>

\* the four dictionaries of the records, folded in order
RECURSIVE Aggregated(_)
Aggregated(txs) ==
    IF txs = <<>>
    THEN [countryMap |-> EmptyMap, productMap |-> EmptyMap,
          monthMap |-> EmptyMap, regionMap |-> EmptyMap]
    ELSE LET before == Aggregated(SubSeq(txs, 1, Len(txs) - 1))
             t == txs[Len(txs)]
         IN  [countryMap |-> foldCountry(before.countryMap, t),
              productMap |-> foldProduct(before.productMap, t),
              monthMap |-> foldMonth(before.monthMap, t),
              regionMap |-> foldRegion(before.regionMap, t)]

\* lines 39-59: the call starts with empty dictionaries of its own.
RivalStart ==
    /\ rival.pc = "idle"
    /\ clock' = clock + 1
    /\ rival' = [NoRival EXCEPT !.pc = "aggregate", !.start = clock']
    /\ UNCHANGED <<callerOnly, callerPc, storeVars, clientPc, accessed, observed, peerPc,
                   response, main, histVars>>

\* lines 61-95: its reader and workers fold its file into its dictionaries and
\* its select takes done.
RivalAggregate ==
    /\ rival.pc = "aggregate"
    /\ LET maps == Aggregated([k \in DOMAIN RivalSource |->
                                  parseTransaction(RivalSource[k], HeaderIndexes)])
       IN  rival' = [rival EXCEPT !.pc = "lock",
                                  !.countryMap = maps.countryMap,
                                  !.productMap = maps.productMap,
                                  !.monthMap = maps.monthMap,
                                  !.regionMap = maps.regionMap]
    /\ UNCHANGED <<callerOnly, callerPc, clock, storeVars, clientPc, accessed, observed,
                   peerPc, response, main, histVars>>

\* RivalLock on a lock that admits a second writer
RivalLockUnguarded ==
    /\ rival.pc = "lock"
    /\ rwWriter' = TRUE
    /\ rival' = [rival EXCEPT !.pc = "publish", !.next = 1]
    /\ UNCHANGED <<callerOnly, callerPc, clock, dashboardData, rwReaders, clientPc, accessed,
                   observed, peerPc, response, main, histVars>>

\* line 98: p.mu.Lock() returns when no other writer holds or awaits the lock
\* and no read lock is held.
RivalLock ==
    /\ rival.pc = "lock"
    /\ ~rwWriter /\ callerPc # "lockwait" /\ rwReaders = 0
    /\ rwWriter' = TRUE
    /\ rival' = [rival EXCEPT !.pc = "publish", !.next = 1]
    /\ UNCHANGED <<callerOnly, callerPc, clock, dashboardData, rwReaders, clientPc, accessed,
                   observed, peerPc, response, main, histVars>>

\* the values line 99-105 may write to a field
RivalValues(field) ==
    CASE field = "CountryRevenues" -> sortCountryRevenues(rival.countryMap)
      [] field = "TopProducts" -> sortTopProducts(rival.productMap, TopProductsLimit)
      [] field = "MonthlySales" -> sortMonthlySales(rival.monthMap)
      [] field = "TopRegions" -> sortTopRegions(rival.regionMap, TopRegionsLimit)
      [] field = "LastUpdated" -> {clock + 1}
      [] field = "ProcessingDuration" -> {clock - rival.start}
      [] field = "RecordCount" -> {Cardinality(DOMAIN rival.countryMap)}

\* lines 99-105: the next field is written; the last write completes the
\* snapshot.
RivalPublish ==
    /\ rival.pc = "publish"
    /\ LET field == DataFields[rival.next] IN
          /\ \E value \in RivalValues(field) :
                dashboardData' = [dashboardData EXCEPT ![field] = value]
          /\ clock' = IF field = "LastUpdated" THEN clock + 1 ELSE clock
          /\ IF rival.next = Len(DataFields)
             THEN /\ rival' = [rival EXCEPT !.pc = "unlock"]
                  /\ published' = Append(published, [data |-> dashboardData',
                                                     readerFailed |-> FALSE,
                                                     by |-> "rival"])
             ELSE /\ rival' = [rival EXCEPT !.next = @ + 1]
                  /\ published' = published
    /\ UNCHANGED <<callerOnly, callerPc, rwWriter, rwReaders, clientPc, accessed, observed,
                   peerPc, response, main, storeAtCall, headerFailed, ioFailed>>

\* lines 106-109
RivalUnlock ==
    /\ rival.pc = "unlock"
    /\ rwWriter' = FALSE
    /\ rival' = [rival EXCEPT !.pc = "returned"]
    /\ UNCHANGED <<callerOnly, callerPc, clock, dashboardData, rwReaders, clientPc, accessed,
                   observed, peerPc, response, main, histVars>>

(***************************************************************************)
(* LoadSampleData, sample_data.go lines 10-82, called in place of          *)
(* ProcessDataset when the program starts without a data file.  The ten    *)
(* countries and twenty products of the source are one country and two     *)
(* products here; rand decides which combinations are skipped (never the   *)
(* first product) and the amounts, so the views are not sorted.            *)
(***************************************************************************)
SampleCountryRevenues ==
    {<<[Country |-> "USA", ProductName |-> "Wireless Headphones",
        TotalRevenue |-> 10000, TransactionCount |-> 50]>>,
     <<[Country |-> "USA", ProductName |-> "Wireless Headphones",
        TotalRevenue |-> 10000, TransactionCount |-> 50],
       [Country |-> "USA", ProductName |-> "Smartphone",
        TotalRevenue |-> 60000, TransactionCount |-> 550]>>}

SampleTopProducts ==
    <<[ProductName |-> "Wireless Headphones", PurchaseCount |-> 1000, CurrentStock |-> 50],
      [ProductName |-> "Smartphone", PurchaseCount |-> 11000, CurrentStock |-> 550]>>

SampleMonthlySales ==
    <<[Month |-> "January", Year |-> 2026, TotalSales |-> 100000, SalesVolume |-> 2000]>>

SampleTopRegions ==
    <<[Region |-> "North America", TotalRevenue |-> 200000, ItemsSold |-> 5000]>>

SampleDataLoaded ==
    /\ callerPc = "idle"
    /\ runs = 0
    /\ dashboardData = New
    /\ ~rwWriter /\ rwReaders = 0
    /\ clock' = clock + 1
    /\ \E revenues \in SampleCountryRevenues :
          dashboardData' = [ CountryRevenues |-> revenues,
                             TopProducts |-> SampleTopProducts,
                             MonthlySales |-> SampleMonthlySales,
                             TopRegions |-> SampleTopRegions,
                             LastUpdated |-> clock',
                             ProcessingDuration |-> 0,
                             RecordCount |-> Len(revenues) ]
    /\ UNCHANGED <<callerOnly, callerPc, rwWriter, rwReaders, histVars>>

LoadSampleData == SampleDataLoaded /\ UNCHANGED clientVars

(***************************************************************************)
(* The reader goroutine, lines 75-81, and readCSV, lines 113-157.          *)
(***************************************************************************)
readerOnly == <<src, numWorkers, call, runs, clock, start, callerPc, lastResult, done, wg,
                barrierPc, workerPc, workerTx, mu, countryMap, productMap, monthMap,
                regionMap>>

\* lines 118, 123-127: the header is read and mapped.
ReadHeader ==
    /\ readerPc = "header"
    /\ readerPc' = "read"
    /\ UNCHANGED <<readerOnly, pos, transaction, transactionCh, closed, errorCh>>
    /\ UNCHANGED <<storeVars, clientVars, histVars>>

\* ReadHeaderFail of a reader that closes the queue without sending the error
ReadHeaderFailUnreported ==
    /\ readerPc = "header"
    /\ readerPc' = "close"
    /\ headerFailed' = TRUE
    /\ UNCHANGED <<readerOnly, pos, transaction, transactionCh, closed, errorCh>>
    /\ UNCHANGED <<storeVars, clientVars, storeAtCall, ioFailed, published>>

\* lines 118-121: reading the header fails; readCSV returns the error.
ReadHeaderFail ==
    /\ readerPc = "header"
    /\ readerPc' = "senderr"
    /\ headerFailed' = TRUE
    /\ UNCHANGED <<readerOnly, pos, transaction, transactionCh, closed, errorCh>>
    /\ UNCHANGED <<storeVars, clientVars, storeAtCall, ioFailed, published>>

\* line 78: errorCh <- err
SendError ==
    /\ readerPc = "senderr"
    /\ Len(errorCh) < ErrorChCap
    /\ errorCh' = Append(errorCh, "failed to read header")
    /\ readerPc' = "close"
    /\ UNCHANGED <<readerOnly, pos, transaction, transactionCh, closed>>
    /\ UNCHANGED <<storeVars, clientVars, histVars>>

\* lines 131-134: reader.Read returns io.EOF; readCSV returns nil.
ReadEOF ==
    /\ readerPc = "read"
    /\ pos = Len(src)
    /\ readerPc' = "close"
    /\ UNCHANGED <<readerOnly, pos, transaction, transactionCh, closed, errorCh>>
    /\ UNCHANGED <<storeVars, clientVars, histVars>>

\* lines 131, 140: a row is read and parsed.
ReadRow ==
    /\ readerPc = "read"
    /\ pos < Len(src)
    /\ src[pos + 1] # BadRow
    /\ pos' = pos + 1
    /\ transaction' = parseTransaction(src[pos + 1], HeaderIndexes)
    /\ readerPc' = "send"
    /\ UNCHANGED <<readerOnly, transactionCh, closed, errorCh>>
    /\ UNCHANGED <<storeVars, clientVars, histVars>>

\* ReadBadRow that gives up reading at the malformed row
ReadBadRowStops ==
    /\ readerPc = "read"
    /\ pos < Len(src)
    /\ src[pos + 1] = BadRow
    /\ pos' = pos + 1
    /\ readerPc' = "close"
    /\ UNCHANGED <<readerOnly, transaction, transactionCh, closed, errorCh>>
    /\ UNCHANGED <<storeVars, clientVars, histVars>>

\* lines 131, 135: reader.Read returns a parse error for a malformed row.
ReadBadRow ==
    /\ readerPc = "read"
    /\ pos < Len(src)
    /\ src[pos + 1] = BadRow
    /\ pos' = pos + 1
    /\ readerPc' = "logerr"
    /\ UNCHANGED <<readerOnly, transaction, transactionCh, closed, errorCh>>
    /\ UNCHANGED <<storeVars, clientVars, histVars>>

\* lines 131, 135: reader.Read returns an I/O error of the file (not EOF).
\* Nothing is consumed; the next Read may fail again.
ReadIOError ==
    /\ readerPc = "read"
    /\ readerPc' = "logerr"
    /\ ioFailed' = TRUE
    /\ UNCHANGED <<readerOnly, pos, transaction, transactionCh, closed, errorCh>>
    /\ UNCHANGED <<storeVars, clientVars, storeAtCall, headerFailed, published>>

\* lines 136-137: log.Printf; continue
LogAndContinue ==
    /\ readerPc = "logerr"
    /\ readerPc' = "read"
    /\ UNCHANGED <<readerOnly, pos, transaction, transactionCh, closed, errorCh>>
    /\ UNCHANGED <<storeVars, clientVars, histVars>>

\* SendTransaction on a queue that takes a record although its buffer is full
SendTransactionUnbounded ==
    /\ readerPc = "send"
    /\ transactionCh' = Append(transactionCh, transaction)
    /\ readerPc' = "read"
    /\ UNCHANGED <<readerOnly, pos, transaction, closed, errorCh>>
    /\ UNCHANGED <<storeVars, clientVars, histVars>>

\* lines 146-147: transactionCh <- transaction blocks while the buffer is full.
SendTransaction ==
    /\ readerPc = "send"
    /\ Len(transactionCh) < QueueCap
    /\ transactionCh' = Append(transactionCh, transaction)
    /\ readerPc' = "read"
    /\ UNCHANGED <<readerOnly, pos, transaction, closed, errorCh>>
    /\ UNCHANGED <<storeVars, clientVars, histVars>>

\* line 76: the deferred close(transactionCh)
CloseQueue ==
    /\ readerPc = "close"
    /\ closed' = TRUE
    /\ readerPc' = "done"
    /\ UNCHANGED <<readerOnly, pos, transaction, transactionCh, errorCh>>
    /\ UNCHANGED <<storeVars, clientVars, histVars>>

(***************************************************************************)
(* The workers, lines 68-71, and aggregateWorker, lines 251-318.           *)
(***************************************************************************)
workerOnly == <<src, numWorkers, call, runs, clock, start, callerPc, lastResult, readerPc,
                pos, transaction, closed, errorCh, done, barrierPc>>

\* line 259: a transaction is received from the queue.
WorkerReceive(i) ==
    /\ workerPc[i] = "recv"
    /\ transactionCh # <<>>
    /\ workerTx' = [workerTx EXCEPT ![i] = Head(transactionCh)]
    /\ transactionCh' = Tail(transactionCh)
    /\ workerPc' = [workerPc EXCEPT ![i] = "lock"]
    /\ UNCHANGED <<workerOnly, wg, mu, countryMap, productMap, monthMap, regionMap>>
    /\ UNCHANGED <<storeVars, clientVars, histVars>>

\* lines 259, 69: the range loop ends on the closed, drained queue; wg.Done().
WorkerExit(i) ==
    /\ workerPc[i] = "recv"
    /\ transactionCh = <<>>
    /\ closed
    /\ workerPc' = [workerPc EXCEPT ![i] = "exit"]
    /\ wg' = wg - 1
    /\ UNCHANGED <<workerOnly, transactionCh, workerTx, mu, countryMap, productMap,
                   monthMap, regionMap>>
    /\ UNCHANGED <<storeVars, clientVars, histVars>>

\* WorkerLock on a mutex that admits a second holder
WorkerLockUnguarded(i) ==
    /\ workerPc[i] = "lock"
    /\ mu' = i
    /\ workerPc' = [workerPc EXCEPT ![i] = "fold"]
    /\ UNCHANGED <<workerOnly, transactionCh, wg, workerTx, countryMap, productMap,
                   monthMap, regionMap>>
    /\ UNCHANGED <<storeVars, clientVars, histVars>>

\* line 260: mu.Lock()
WorkerLock(i) ==
    /\ workerPc[i] = "lock"
    /\ mu = 0
    /\ mu' = i
    /\ workerPc' = [workerPc EXCEPT ![i] = "fold"]
    /\ UNCHANGED <<workerOnly, transactionCh, wg, workerTx, countryMap, productMap,
                   monthMap, regionMap>>
    /\ UNCHANGED <<storeVars, clientVars, histVars>>

\* WorkerFold with the country fold also stored in the dashboard data
WorkerFoldIntoStore(i) ==
    /\ workerPc[i] = "fold"
    /\ countryMap' = foldCountry(countryMap, workerTx[i])
    /\ productMap' = foldProduct(productMap, workerTx[i])
    /\ monthMap' = foldMonth(monthMap, workerTx[i])
    /\ regionMap' = foldRegion(regionMap, workerTx[i])
    /\ \E view \in sortCountryRevenues(countryMap') :
          dashboardData' = [dashboardData EXCEPT !.CountryRevenues = view]
    /\ mu' = 0
    /\ workerPc' = [workerPc EXCEPT ![i] = "recv"]
    /\ UNCHANGED <<workerOnly, transactionCh, wg, workerTx>>
    /\ UNCHANGED <<rwWriter, rwReaders, clientVars, histVars>>

\* lines 262-316: the four folds, then mu.Unlock()
WorkerFold(i) ==
    /\ workerPc[i] = "fold"
    /\ countryMap' = foldCountry(countryMap, workerTx[i])
    /\ productMap' = foldProduct(productMap, workerTx[i])
    /\ monthMap' = foldMonth(monthMap, workerTx[i])
    /\ regionMap' = foldRegion(regionMap, workerTx[i])
    /\ mu' = 0
    /\ workerPc' = [workerPc EXCEPT ![i] = "recv"]
    /\ UNCHANGED <<workerOnly, transactionCh, wg, workerTx>>
    /\ UNCHANGED <<storeVars, clientVars, histVars>>

\* The same critical section one update at a time: lines 262-274,
WorkerFoldCountry(i) ==
    /\ workerPc[i] = "fold"
    /\ countryMap' = foldCountry(countryMap, workerTx[i])
    /\ workerPc' = [workerPc EXCEPT ![i] = "foldProduct"]
    /\ UNCHANGED <<workerOnly, transactionCh, wg, workerTx, mu, productMap, monthMap,
                   regionMap>>
    /\ UNCHANGED <<storeVars, clientVars, histVars>>

\* lines 276-288,
WorkerFoldProduct(i) ==
    /\ workerPc[i] = "foldProduct"
    /\ productMap' = foldProduct(productMap, workerTx[i])
    /\ workerPc' = [workerPc EXCEPT ![i] = "foldMonth"]
    /\ UNCHANGED <<workerOnly, transactionCh, wg, workerTx, mu, countryMap, monthMap,
                   regionMap>>
    /\ UNCHANGED <<storeVars, clientVars, histVars>>

\* lines 290-302,
WorkerFoldMonth(i) ==
    /\ workerPc[i] = "foldMonth"
    /\ monthMap' = foldMonth(monthMap, workerTx[i])
    /\ workerPc' = [workerPc EXCEPT ![i] = "foldRegion"]
    /\ UNCHANGED <<workerOnly, transactionCh, wg, workerTx, mu, countryMap, productMap,
                   regionMap>>
    /\ UNCHANGED <<storeVars, clientVars, histVars>>

\* lines 304-316: the last update, then mu.Unlock().
WorkerFoldRegion(i) ==
    /\ workerPc[i] = "foldRegion"
    /\ regionMap' = foldRegion(regionMap, workerTx[i])
    /\ mu' = 0
    /\ workerPc' = [workerPc EXCEPT ![i] = "recv"]
    /\ UNCHANGED <<workerOnly, transactionCh, wg, workerTx, countryMap, productMap,
                   monthMap>>
    /\ UNCHANGED <<storeVars, clientVars, histVars>>

\* lines 259-317 on their own: the loop body of one worker applied to the next
\* record of a sequence, one record after the other.
FoldOne ==
    /\ callerPc = "idle"
    /\ pos < Len(src)
    /\ LET t == parseTransaction(src[pos + 1], HeaderIndexes) IN
          /\ countryMap' = foldCountry(countryMap, t)
          /\ productMap' = foldProduct(productMap, t)
          /\ monthMap' = foldMonth(monthMap, t)
          /\ regionMap' = foldRegion(regionMap, t)
    /\ pos' = pos + 1
    /\ UNCHANGED <<src, numWorkers, call, runs, clock, start, callerPc, lastResult, readerPc,
                   transaction, transactionCh, closed, errorCh, done, wg, barrierPc,
                   workerPc, workerTx, mu>>
    /\ UNCHANGED <<storeVars, clientVars, histVars>>

(***************************************************************************)
(* The sorting functions called on their own, on the dictionaries of a     *)
(* finished aggregation; the truncating ones with any limit.               *)
(***************************************************************************)
SortLimits == 0..SortMaxLimit

callOnly == <<src, numWorkers, runs, clock, start, callerPc, lastResult, readerPc, pos,
              transaction, transactionCh, closed, errorCh, done, wg, barrierPc,
              workerPc, workerTx, mu, countryMap, productMap, monthMap, regionMap>>

CanCall == callerPc = "idle" /\ pos = Len(src) /\ call = NoCall

CallSortCountryRevenues ==
    /\ CanCall
    /\ \E view \in sortCountryRevenues(countryMap) :
          call' = [fn |-> "sortCountryRevenues", result |-> view]
    /\ UNCHANGED <<callOnly, storeVars, clientVars, histVars>>

CallSortTopProducts ==
    /\ CanCall
    /\ \E limit \in SortLimits \cup {TopProductsLimit} :
          \E view \in sortTopProducts(productMap, limit) :
              call' = [fn |-> "sortTopProducts", limit |-> limit, result |-> view]
    /\ UNCHANGED <<callOnly, storeVars, clientVars, histVars>>

CallSortMonthlySales ==
    /\ CanCall
    /\ \E view \in sortMonthlySales(monthMap) :
          call' = [fn |-> "sortMonthlySales", result |-> view]
    /\ UNCHANGED <<callOnly, storeVars, clientVars, histVars>>

CallSortTopRegions ==
    /\ CanCall
    /\ \E limit \in SortLimits \cup {TopRegionsLimit} :
          \E view \in sortTopRegions(regionMap, limit) :
              call' = [fn |-> "sortTopRegions", limit |-> limit, result |-> view]
    /\ UNCHANGED <<callOnly, storeVars, clientVars, histVars>>

(***************************************************************************)
(* parseTransaction called on its own, as the tests call it: on a record   *)
(* and the header map of a header row.  The header row names some of the   *)
(* columns in some order, the record holds the cells of a row under the    *)
(* first n of them (a record may be shorter than the header row).          *)
(***************************************************************************)
Reverse(seq) == [i \in 1..Len(seq) |-> seq[Len(seq) + 1 - i]]

\* a row with white space around a text and a date, numbers that do not
\* parse and a blank date
RowSpaced == <<" USA ", "Laptop", "North America", Num(1000), Num(2), NotNum,
               " 2024-01-15 ", NotNum, "  ">>

\* a row with the given texts in its date cells
DateRow(transactionDate, addedDate) ==
    <<"UK", "Phone", "Europe", Num(800), Num(1), Num(50), transactionDate, Num(800),
      addedDate>>

ParseRows ==
    {Row100, Row0, RowPhone, RowSpaced}
        \cup {DateRow(t, a) : t, a \in DOMAIN DateTexts \cup {NotDate}}

\* header rows: every column, the columns in another order, a column the
\* parser does not know first, some columns only, and none
ParseColumns ==
    {Header, Reverse(Header), <<"category">> \o Header,
     <<"country", "price", "quantity">>,
     <<"added_date", "stock_quantity", "region", "product_name">>,
     <<>>}

\* the cells of a row by column name
CellsOf(row) == [name \in DOMAIN HeaderIndexes |-> Cell(row, name)] @@ ("category" :> "Electronics")

RecordOf(row, columns, n) == [i \in 1..n |-> CellsOf(row)[columns[i]]]

CallParseTransaction ==
    /\ CanCall
    /\ \E row \in ParseRows, columns \in ParseColumns :
          \E n \in 0..Len(columns) :
              LET record == RecordOf(row, columns, n)
                  hm == headerMap(columns)
              IN  call' = [fn |-> "parseTransaction", record |-> record, headerMap |-> hm,
                           transaction |-> parseTransaction(record, hm), err |-> "nil"]
    /\ UNCHANGED <<callOnly, storeVars, clientVars, histVars>>

(***************************************************************************)
(* readCSV and the aggregation on their own, on files that hold the same   *)
(* columns under header rows spelled and ordered in several ways.  A       *)
(* column of a file is the name its header cell spells, that name in lower *)
(* case without the white space, and the column of Header whose cells it   *)
(* holds.                                                                  *)
(***************************************************************************)
\* the rows of the files
HeaderItems == {Row100, RowReturn, RowPhone, RowSpaced}

Spelled == <<"Country", "PRODUCT_NAME", " region ", " Total_Price", "Quantity ",
             "STOCK_QUANTITY", "Transaction_Date", " PRICE ", "Added_Date">>

PlainLayout == [i \in DOMAIN Header |-> [name |-> Header[i], plain |-> Header[i], of |-> Header[i]]]
SpelledLayout == [i \in DOMAIN Header |-> [name |-> Spelled[i], plain |-> Header[i], of |-> Header[i]]]

\* a column the parser does not know, and a second column named country
UnknownColumn == [name |-> "Category ", plain |-> "category", of |-> "category"]
SecondCountry == [name |-> "Country", plain |-> "country", of |-> "region"]

Layouts ==
    {PlainLayout, SpelledLayout, Reverse(PlainLayout), Reverse(SpelledLayout),
     <<UnknownColumn>> \o PlainLayout, SpelledLayout \o <<UnknownColumn>>,
     PlainLayout \o <<SecondCountry>>, <<SecondCountry>> \o SpelledLayout}

HeaderRow(layout) == [i \in DOMAIN layout |-> layout[i].name]
RecordIn(layout, row) == [i \in DOMAIN layout |-> CellsOf(row)[layout[i].of]]

\* lines 123-150 and 251-318: the dictionaries of the file's records
Load(layout, rows) ==
    Aggregated([k \in DOMAIN rows |->
                   parseTransaction(RecordIn(layout, rows[k]), headerMap(HeaderRow(layout)))])

\* lines 99-102: the views ProcessDataset may publish from the dictionaries
ViewsOf(maps) ==
    {[CountryRevenues |-> c, TopProducts |-> p, MonthlySales |-> m, TopRegions |-> r] :
        c \in sortCountryRevenues(maps.countryMap),
        p \in sortTopProducts(maps.productMap, TopProductsLimit),
        m \in sortMonthlySales(maps.monthMap),
        r \in sortTopRegions(maps.regionMap, TopRegionsLimit)}

CallLoad ==
    /\ callerPc = "idle"
    /\ call = NoCall
    /\ \E layout \in Layouts :
          call' = [fn |-> "readCSV", layout |-> layout, views |-> ViewsOf(Load(layout, src))]
    /\ UNCHANGED <<callOnly, storeVars, clientVars, histVars>>

(***************************************************************************)
(* The barrier goroutine, lines 84-87.                                     *)
(***************************************************************************)
\* BarrierRelease that waits for the first worker only
BarrierReleaseEarly ==
    /\ barrierPc = "wait"
    /\ wg < numWorkers
    /\ done' = TRUE
    /\ barrierPc' = "done"
    /\ UNCHANGED <<src, numWorkers, call, runs, clock, start, callerPc, lastResult, readerPc,
                   pos, transaction, transactionCh, closed, errorCh, wg, workerPc,
                   workerTx, mu, countryMap, productMap, monthMap, regionMap>>
    /\ UNCHANGED <<storeVars, clientVars, histVars>>

BarrierRelease ==
    /\ barrierPc = "wait"
    /\ wg = 0
    /\ done' = TRUE
    /\ barrierPc' = "done"
    /\ UNCHANGED <<src, numWorkers, call, runs, clock, start, callerPc, lastResult, readerPc,
                   pos, transaction, transactionCh, closed, errorCh, wg, workerPc,
                   workerTx, mu, countryMap, productMap, monthMap, regionMap>>
    /\ UNCHANGED <<storeVars, clientVars, histVars>>

(***************************************************************************)
(* An API client: the accessors, lines 385-417, and the use the handlers   *)
(* make of the pointer GetDashboardData returns (they read its fields      *)
(* after the read lock is released).                                       *)
(***************************************************************************)
\* RLock of a lock that admits one holder at a time
CanRLockExclusive == ~rwWriter /\ callerPc # "lockwait" /\ rwReaders = 0

\* p.mu.RLock() waits while the lock is write-locked or a writer waits for it.
CanRLock == ~rwWriter /\ callerPc # "lockwait"

\* GetCountryRevenues, GetTopProducts, GetMonthlySales, GetTopRegions:
\* RLock and the read of the field.
GetView(kind) ==
    /\ clientPc = "idle"
    /\ CanRLock
    /\ rwReaders' = rwReaders + 1
    /\ accessed' = [kind |-> kind, value |-> dashboardData[kind],
                    duringRun |-> callerPc = "select",
                    previous |-> storeAtCall[kind]]
    /\ clientPc' = "viewRLocked"
    /\ UNCHANGED <<pipeVars, dashboardData, rwWriter, observed, peerPc, response, rival, main, histVars>>

\* GetDashboardData: RLock and the read of the pointer.
GetDashboardData ==
    /\ clientPc = "idle"
    /\ CanRLock
    /\ rwReaders' = rwReaders + 1
    /\ observed' = <<>>
    /\ clientPc' = "dataRLocked"
    /\ UNCHANGED <<pipeVars, dashboardData, rwWriter, accessed, peerPc, response, rival, main, histVars>>

\* the deferred p.mu.RUnlock() of an accessor, and its return; the client
\* is done with a view once it has it
AccessorReturn ==
    /\ clientPc \in {"viewRLocked", "dataRLocked"}
    /\ rwReaders' = rwReaders - 1
    /\ clientPc' = IF clientPc = "dataRLocked" THEN "reading" ELSE "idle"
    /\ accessed' = NoAccess
    /\ UNCHANGED <<pipeVars, dashboardData, rwWriter, observed, peerPc, response, rival, main, histVars>>

\* the caller of GetDashboardData reads the next field through the pointer
\* (no lock is held); a read that races with a write of the field yields
\* the value before or after the write
ReadField ==
    /\ clientPc = "reading"
    /\ Len(observed) < Len(DataFields)
    /\ observed' = Append(observed, dashboardData[DataFields[Len(observed) + 1]])
    /\ UNCHANGED <<pipeVars, storeVars, clientPc, accessed, peerPc, response, rival, main, histVars>>

\* the client has read every field and drops the pointer
ReadDone ==
    /\ clientPc = "reading"
    /\ Len(observed) = Len(DataFields)
    /\ observed' = <<>>
    /\ clientPc' = "idle"
    /\ UNCHANGED <<pipeVars, storeVars, accessed, peerPc, response, rival, main, histVars>>

\* A second client, in a view accessor at the same time: p.mu.RLock() and the
\* read of the field,
PeerGetView ==
    /\ peerPc = "idle"
    /\ CanRLock
    /\ rwReaders' = rwReaders + 1
    /\ peerPc' = "viewRLocked"
    /\ UNCHANGED <<pipeVars, dashboardData, rwWriter, clientPc, accessed, observed, response, rival, main, histVars>>

\* and the deferred p.mu.RUnlock() and the return.
PeerAccessorReturn ==
    /\ peerPc = "viewRLocked"
    /\ rwReaders' = rwReaders - 1
    /\ peerPc' = "idle"
    /\ UNCHANGED <<pipeVars, dashboardData, rwWriter, clientPc, accessed, observed, response, rival, main, histVars>>

(***************************************************************************)
(* A view handler of the API (getCountryRevenues, getTopProducts,          *)
(* getMonthlySales, getTopRegions; api/server.go): it calls the view       *)
(* accessor, then GetDashboardData, and reads LastUpdated through the      *)
(* pointer it got.                                                         *)
(***************************************************************************)
\* data := s.processor.GetCountryRevenues(); "count": len(data)
HandlerGetData(kind) ==
    /\ response.stage \in {"none", "written"}
    /\ CanRLock
    /\ response' = [stage |-> "data", kind |-> kind, data |-> dashboardData[kind],
                    count |-> Len(dashboardData[kind])]
    /\ UNCHANGED <<pipeVars, storeVars, clientPc, accessed, observed, peerPc, rival, main, histVars>>

\* s.processor.GetDashboardData() returns the pointer
HandlerGetDashboardData ==
    /\ response.stage = "data"
    /\ CanRLock
    /\ response' = [response EXCEPT !.stage = "pointer"]
    /\ UNCHANGED <<pipeVars, storeVars, clientPc, accessed, observed, peerPc, rival, main, histVars>>

\* .LastUpdated is read with no lock held, and the response is written
HandlerWriteResponse ==
    /\ response.stage = "pointer"
    /\ response' = [stage |-> "written", kind |-> response.kind, data |-> response.data,
                    count |-> response.count, updated_at |-> dashboardData.LastUpdated]
    /\ UNCHANGED <<pipeVars, storeVars, clientPc, accessed, observed, peerPc, rival, main, histVars>>

(***************************************************************************)
(* func main, main.go lines 28-50 and 80-87: the initial load, then the    *)
(* server.                                                                 *)
(***************************************************************************)
mainOnly == <<clientPc, accessed, observed, peerPc, response, rival>>

\* log.Fatalf that only logs
MainFatalfLogsOnly ==
    /\ main.pc = "process"
    /\ callerPc = "returned" /\ lastResult = "err"
    /\ main' = [main EXCEPT !.pc = "loaded"]
    /\ UNCHANGED <<pipeVars, storeVars, mainOnly, histVars>>

\* lines 28-34: cfg := config.Load(); processor.New(); cfg.DataFilePath != ""
MainLoadConfig ==
    /\ main.pc = "none"
    /\ \E dataFile \in BOOLEAN :
          main' = [pc |-> IF dataFile THEN "process" ELSE "sample", dataFile |-> dataFile]
    /\ UNCHANGED <<pipeVars, storeVars, mainOnly, histVars>>

\* lines 38-40: ProcessDataset returned an error, log.Fatalf ends the process
MainFatalf ==
    /\ main.pc = "process"
    /\ callerPc = "returned" /\ lastResult = "err"
    /\ main' = [main EXCEPT !.pc = "exit"]
    /\ UNCHANGED <<pipeVars, storeVars, mainOnly, histVars>>

\* lines 38, 42-43: ProcessDataset returned nil
MainProcessed ==
    /\ main.pc = "process"
    /\ callerPc = "returned" /\ lastResult = "ok"
    /\ main' = [main EXCEPT !.pc = "loaded"]
    /\ UNCHANGED <<pipeVars, storeVars, mainOnly, histVars>>

\* lines 44-47: dataProcessor.LoadSampleData()
MainLoadSampleData ==
    /\ main.pc = "sample"
    /\ SampleDataLoaded
    /\ main' = [main EXCEPT !.pc = "loaded"]
    /\ UNCHANGED mainOnly

\* line 50: api.NewServer(dataProcessor, cfg)
MainNewServer ==
    /\ main.pc = "loaded"
    /\ main' = [main EXCEPT !.pc = "created"]
    /\ UNCHANGED <<pipeVars, storeVars, mainOnly, histVars>>

\* line 83: server.ListenAndServe()
MainListenAndServe ==
    /\ main.pc = "created"
    /\ main' = [main EXCEPT !.pc = "serving"]
    /\ UNCHANGED <<pipeVars, storeVars, mainOnly, histVars>>

(***************************************************************************)
(* Specifications.                                                         *)
(***************************************************************************)
CallerNext ==
    \/ ProcessDatasetOpenFail
    \/ ProcessDatasetStart
    \/ SelectError
    \/ SelectDone
    \/ PublishLock
    \/ PublishLockAcquired
    \/ PublishCountryRevenues
    \/ PublishTopProducts
    \/ PublishMonthlySales
    \/ PublishTopRegions
    \/ PublishLastUpdated
    \/ PublishProcessingDuration
    \/ PublishRecordCount
    \/ PublishUnlock

ReaderNext ==
    \/ ReadHeader
    \/ ReadHeaderFail
    \/ SendError
    \/ ReadEOF
    \/ ReadRow
    \/ ReadBadRow
    \/ ReadIOError
    \/ LogAndContinue
    \/ SendTransaction
    \/ CloseQueue

WorkerNext(i) ==
    \/ WorkerReceive(i)
    \/ WorkerExit(i)
    \/ WorkerLock(i)
    \/ WorkerFold(i)

ClientNext ==
    \/ \E k \in 1..Len(ViewFields) : GetView(ViewFields[k])
    \/ GetDashboardData
    \/ AccessorReturn
    \/ ReadField
    \/ ReadDone

PeerNext ==
    \/ PeerGetView
    \/ PeerAccessorReturn

Next ==
    \/ CallerNext
    \/ ReaderNext
    \/ \E i \in Workers : WorkerNext(i)
    \/ BarrierRelease

\* one ProcessDataset call on a new store
Spec == Init /\ [][Next]_vars

\* ProcessDataset called repeatedly on one store, over the same source
RerunInit == InitWith(RerunItems, RerunMaxRows, MaxWorkers)
RerunNext == Next \/ NextCall
RerunSpec == RerunInit /\ [][RerunNext]_vars

\* one ProcessDataset call on a new store that an API client reads meanwhile
ConcInit == InitWith(ConcItems, ConcMaxRows, ConcMaxWorkers)
ConcNext == Next \/ ClientNext
ConcSpec == ConcInit /\ [][ConcNext]_vars

\* the same with two API clients
PeerNextAll == ConcNext \/ PeerNext
PeerSpec == ConcInit /\ [][PeerNextAll]_vars

\* a store that is given the sample data or not, and then ProcessDataset calls
SampleInit == InitWith(RerunItems, SampleMaxRows, 1)
SampleNext == RerunNext \/ LoadSampleData
SampleSpec == SampleInit /\ [][SampleNext]_vars

\* the folds of aggregateWorker applied to every sequence of records, in order
FoldInit == InitWith(FoldItems, FoldMaxRows, 1)
FoldSpec == FoldInit /\ [][FoldOne]_vars

\* the sorting functions applied to the dictionaries of every such sequence
SortNext ==
    \/ FoldOne
    \/ CallSortCountryRevenues
    \/ CallSortTopProducts
    \/ CallSortMonthlySales
    \/ CallSortTopRegions
SortSpec == FoldInit /\ [][SortNext]_vars

\* parseTransaction on its own, on every record and header map above
ParseInit == InitWith({}, 0, 1)
ParseSpec == ParseInit /\ [][CallParseTransaction]_vars

\* the load of every source under every header row above
HeaderInit == InitWith(HeaderItems, HeaderMaxRows, 1)
HeaderSpec == HeaderInit /\ [][CallLoad]_vars

\* one ProcessDataset call whose workers make the four updates of a record in
\* four steps
StepWorkerNext(i) ==
    \/ WorkerReceive(i)
    \/ WorkerExit(i)
    \/ WorkerLock(i)
    \/ WorkerFoldCountry(i)
    \/ WorkerFoldProduct(i)
    \/ WorkerFoldMonth(i)
    \/ WorkerFoldRegion(i)

StepNext ==
    \/ CallerNext
    \/ ReaderNext
    \/ \E i \in Workers : StepWorkerNext(i)
    \/ BarrierRelease

StepInit == InitWith(SourceItems, StepMaxRows, StepMaxWorkers)
StepSpec == StepInit /\ [][StepNext]_vars

\* two ProcessDataset calls on one new store at the same time
RivalNext ==
    \/ RivalStart
    \/ RivalAggregate
    \/ RivalLock
    \/ RivalPublish
    \/ RivalUnlock

RivalNextAll == Next \/ RivalNext
RivalInit == InitWith(ConcItems, RivalMaxRows, RivalMaxWorkers)
RivalSpec == RivalInit /\ [][RivalNextAll]_vars

\* one ProcessDataset call on a new store while the API answers view requests
HandlerNext ==
    \/ \E k \in 1..Len(ViewFields) : HandlerGetData(ViewFields[k])
    \/ HandlerGetDashboardData
    \/ HandlerWriteResponse

HandlerNextAll == Next \/ HandlerNext
HandlerSpec == ConcInit /\ [][HandlerNextAll]_vars

\* line 38: the ProcessDataset call and its goroutines, which end with the process
MainProcessDataset ==
    /\ main.dataFile
    /\ main.pc \in {"process", "loaded", "created", "serving"}
    /\ Next

\* the handlers run once the server listens
MainServe ==
    /\ main.pc = "serving"
    /\ \/ \E k \in 1..Len(ViewFields) : HandlerGetData(ViewFields[k])
       \/ HandlerGetDashboardData
       \/ HandlerWriteResponse

\* the program from its start: the initial load, then the API
MainNext ==
    \/ MainLoadConfig
    \/ MainProcessDataset
    \/ MainFatalf
    \/ MainProcessed
    \/ MainLoadSampleData
    \/ MainNewServer
    \/ MainListenAndServe
    \/ MainServe

MainSpec == ConcInit /\ [][MainNext]_vars

\* under fair scheduling of the goroutines: each keeps taking its steps, and a
\* worker that waits for the aggregation mutex gets it (sync.Mutex hands the
\* lock to a starving waiter)
FairSpec ==
    /\ Spec
    /\ WF_vars(CallerNext)
    /\ WF_vars(ReaderNext)
    /\ WF_vars(BarrierRelease)
    /\ \A i \in 1..MaxWorkers : SF_vars(i \in Workers /\ WorkerNext(i))

(***************************************************************************)
(* Properties.                                                             *)
(***************************************************************************)
PublishPcs == {"lock", "lockwait", "pubCountry", "pubProducts", "pubMonthly",
               "pubRegions", "pubUpdated", "pubDuration", "pubCount", "unlock"}

Returned(result) == callerPc = "returned" /\ lastResult = result

RECURSIVE SumTransactionCount(_)
SumTransactionCount(view) ==
    IF view = <<>> THEN 0
    ELSE Head(view).TransactionCount + SumTransactionCount(Tail(view))

ValidRows(source) == SelectSeq(source, LAMBDA row : row # BadRow)

\* the stock readings of a product, in source order, that are not zero
StockReadings(source, product) ==
    LET txs == [k \in DOMAIN ValidRows(source) |->
                   parseTransaction(ValidRows(source)[k], HeaderIndexes)]
    IN  SelectSeq(txs, LAMBDA t : t.ProductName = product /\ t.StockQuantity # 0)

LastNonZeroStock(source, product) ==
    LET r == StockReadings(source, product)
    IN  IF r = <<>> THEN 0 ELSE r[Len(r)].StockQuantity

Elements(view) == {view[k] : k \in DOMAIN view}

ViewContents(data) == [k \in DOMAIN ViewFields |-> Elements(data[ViewFields[k]])]

CompletedSnapshots == {New} \cup {published[k].data : k \in DOMAIN published}

\* C1: if the reader fails, ProcessDataset returns an error and never runs the
\* publish step, whatever the interleaving: the error wins over the closed done
\* channel and nothing is written to the store.
C1_ReaderErrorWins ==
    headerFailed =>
        /\ callerPc \notin PublishPcs
        /\ callerPc = "returned" => lastResult = "err"
        /\ dashboardData = storeAtCall

\* C2: whenever ProcessDataset has returned an error, the four views and the
\* metadata of the store are what they were when the call began.
C2_FailedRunLeavesStore ==
    Returned("err") => dashboardData = storeAtCall

\* C2 witness: a run whose reader failed has returned the error on a store that
\* holds the snapshot of an earlier run.
C2_Witness ==
    /\ Returned("err")
    /\ headerFailed
    /\ dashboardData.RecordCount > 0
    /\ dashboardData.LastUpdated > 0

\* C3: the fields a client reads through the snapshot it got from
\* GetDashboardData all come from one completed run (or from New), even when a
\* publish runs meanwhile.
C3_SnapshotIsOneRun ==
    (clientPc = "reading" /\ Len(observed) = Len(DataFields)) =>
        \E snap \in CompletedSnapshots :
            \A k \in DOMAIN DataFields : observed[k] = snap[DataFields[k]]

\* C4: a view accessor called while the run is reading, aggregating or waiting
\* on the barrier returns the view of the previously published snapshot, and the
\* store's views are still the previous ones: no entry of the dictionaries in
\* progress is visible.
C4_AccessorSeesPreviousView ==
    /\ accessed.duringRun => accessed.value = accessed.previous
    /\ callerPc = "select" =>
          \A k \in DOMAIN ViewFields : dashboardData[ViewFields[k]] = storeAtCall[ViewFields[k]]

\* C4 witness: GetCountryRevenues has returned during a run whose country
\* dictionary already holds an entry.
C4_Witness ==
    /\ accessed.duringRun
    /\ accessed.kind = "CountryRevenues"
    /\ callerPc = "select"
    /\ DOMAIN countryMap # {}

\* C5: in the country-product view of a run that has published and returned,
\* the transaction counts add up to the number of structurally valid rows of the
\* source.
C5_EveryValidRowCountedOnce ==
    Returned("ok") =>
        SumTransactionCount(dashboardData.CountryRevenues) = Len(ValidRows(src))

\* C6: two successful runs over the same source publish the same contents in
\* all four views (a run whose reader failed is not a successful one).
C6_RerunPublishesSameViews ==
    \A a, b \in DOMAIN published :
        (~published[a].readerFailed /\ ~published[b].readerFailed) =>
            ViewContents(published[a].data) = ViewContents(published[b].data)

\* C7: an I/O failure of the source aborts the run: after a failed open, a failed
\* header read or a failed row read, the reader reads no further row, nothing is
\* published and ProcessDataset returns an error.
C7_IOFailureAbortsRun ==
    /\ (callerPc = "returned" /\ readerPc = "none") => lastResult = "err"
    /\ (headerFailed \/ ioFailed) =>
          /\ readerPc \notin {"read", "send"}
          /\ callerPc \notin PublishPcs
          /\ callerPc = "returned" => lastResult = "err"

\* C8: for the source whose rows carry the stock readings 100, 0, 150 of one
\* product, the published current stock of the product is 150 (the last reading
\* that is not zero), for every number of workers and every interleaving.
C8_StockScenario ==
    (src = <<Row100, Row0, Row150>> /\ Returned("ok")) =>
        \A k \in DOMAIN dashboardData.TopProducts :
            /\ dashboardData.TopProducts[k].CurrentStock = 150
            /\ dashboardData.TopProducts[k].CurrentStock
                  = LastNonZeroStock(src, dashboardData.TopProducts[k].ProductName)

\* C9: the publish step begins only after every worker has exited, and a worker
\* exits only when the queue is closed and empty; so no worker writes a
\* dictionary while or after it is converted.
C9_PublishAfterWorkersExit ==
    /\ callerPc \in PublishPcs => \A i \in Workers : workerPc[i] = "exit"
    /\ \A i \in Workers : workerPc[i] = "exit" => (closed /\ transactionCh = <<>>)

\* C9 witness: two workers have folded rows and exited, and the caller converts
\* the country dictionary.
C9_Witness ==
    /\ callerPc = "pubCountry"
    /\ numWorkers = 2
    /\ Cardinality(DOMAIN countryMap) = 2

\* C10: under fair scheduling every ProcessDataset call eventually returns.
C10_EveryCallReturns == (callerPc = "select") ~> (callerPc = "returned")

(***************************************************************************)
(* The work queue.                                                         *)
(***************************************************************************)
\* the transactions of the valid rows among the first n rows of the source
\* what parseTransaction makes of each well-formed row of the pipeline runs
ParsedItems == [row \in SourceItems \ {BadRow} |-> parseTransaction(row, HeaderIndexes)]

ParsedRows(n) ==
    LET rows == ValidRows(SubSeq(src, 1, n))
    IN  [k \in DOMAIN rows |-> ParsedItems[rows[k]]]

\* records a worker has received and not folded yet
HeldCount == Cardinality({i \in Workers : workerPc[i] \in {"lock", "fold"}})

\* C11: the work queue never holds more records than its capacity (the reader
\* waits at the send while it is full), and no record is dropped or kept
\* anywhere else: the queue holds, in order, exactly the records sent and not
\* yet received, and every received record is held by a worker or folded.
C11_QueueBoundedNothingLost ==
    LET rows == ParsedRows(pos)
        sent == Len(rows) - (IF readerPc = "send" THEN 1 ELSE 0)
        queued == Len(transactionCh)
    IN  /\ queued <= QueueCap
        /\ transactionCh = SubSeq(rows, sent - queued + 1, sent)
        /\ sent - queued = HeldCount + FoldedCount(countryMap)
        /\ readerPc = "send" => transaction = rows[Len(rows)]

\* C11 witness: the reader waits at the send with a full queue.
C11_Witness ==
    /\ readerPc = "send"
    /\ Len(transactionCh) = QueueCap
    /\ ~ENABLED SendTransaction

(***************************************************************************)
(* The store lock.                                                         *)
(***************************************************************************)
\* the caller is about to run one of the four sorting functions
SortPcs == {"pubCountry", "pubProducts", "pubMonthly", "pubRegions"}

\* C12: no sorting function runs while ProcessDataset holds the write lock of
\* the store: the dictionaries are sorted and truncated before the lock is
\* acquired, which is held for the swap only.
C12_NoSortUnderWriteLock ==
    callerPc \in SortPcs => ~rwWriter

\* C13: from the start of a run up to the release of the barrier the run does
\* not hold the store lock, and an accessor call of either client takes the read
\* lock at once, also while the other client holds it.
C13_AccessorsNeverWaitDuringRun ==
    callerPc = "select" =>
        /\ ~rwWriter
        /\ clientPc = "idle" =>
              /\ ENABLED GetDashboardData
              /\ \A k \in DOMAIN ViewFields : ENABLED GetView(ViewFields[k])
        /\ peerPc = "idle" => ENABLED PeerGetView

\* C13 witness: both clients hold the read lock while the workers aggregate.
C13_Witness ==
    /\ callerPc = "select"
    /\ rwReaders = 2
    /\ DOMAIN countryMap # {}
    /\ \E i \in Workers : workerPc[i] = "recv"

(***************************************************************************)
(* The merge rules (FoldSpec).                                             *)
(***************************************************************************)
\* the records folded so far, in the order they were folded
Folded == [k \in 1..pos |-> parseTransaction(src[k], HeaderIndexes)]

RECURSIVE SumOf(_)
SumOf(ns) == IF ns = <<>> THEN 0 ELSE Head(ns) + SumOf(Tail(ns))

Prices(recs) == SumOf([k \in DOMAIN recs |-> recs[k].TotalPrice])
Quantities(recs) == SumOf([k \in DOMAIN recs |-> recs[k].Quantity])

\* the folded records that mapped to a key of the country-product dictionary
CountryRecords(key) == SelectSeq(Folded, LAMBDA t : countryKey(t) = key)

FoldedPairs == {<<Folded[k].Country, Folded[k].ProductName>> : k \in DOMAIN Folded}

\* C15: the country-product dictionary holds exactly one entry per distinct
\* (country, product name) pair of the folded records, and two records whose
\* pairs differ never map to the same entry, whatever the strings are.
C15_OneEntryPerPair ==
    /\ Cardinality(DOMAIN countryMap) = Cardinality(FoldedPairs)
    /\ \A i, j \in DOMAIN Folded :
          <<Folded[i].Country, Folded[i].ProductName>>
                # <<Folded[j].Country, Folded[j].ProductName>>
             => countryKey(Folded[i]) # countryKey(Folded[j])

\* the folded records of a product
ProductRecords(product) == SelectSeq(Folded, LAMBDA t : t.ProductName = product)

\* C16: the purchase count of every product entry is the sum of the quantities
\* of the folded records of that product; quantities 2 and 1 give 3.
C16_PurchaseCountIsQuantity ==
    \A product \in DOMAIN productMap :
        productMap[product].PurchaseCount = Quantities(ProductRecords(product))

RECURSIVE StockByRule(_)
StockByRule(readings) ==
    IF Len(readings) = 1 THEN readings[1]
    ELSE LET last == readings[Len(readings)]
         IN  IF last # 0 THEN last
             ELSE StockByRule(SubSeq(readings, 1, Len(readings) - 1))

StockOf(recs) == [k \in DOMAIN recs |-> recs[k].StockQuantity]

\* C18: the current stock of every product entry is the stock of its first
\* record, overwritten by the stock of every later record whose stock is not
\* zero (whatever integer it is) and kept on a zero reading.
C18_StockOverwriteRule ==
    \A product \in DOMAIN productMap :
        productMap[product].CurrentStock = StockByRule(StockOf(ProductRecords(product)))

\* the folded records of a key of the monthly dictionary
MonthRecords(key) == SelectSeq(Folded, LAMBDA t : monthKey(t) = key)

FoldedMonths == {Folded[k].TransactionDate : k \in DOMAIN Folded}

\* C19: the monthly dictionary has one entry per (year, month) of the folded
\* records; the entry carries that year and the name of that month, the sum of
\* the total prices and the sum of the quantities of the records of that month,
\* and records of different (year, month) never share an entry.
C19_MonthMergeRule ==
    /\ Cardinality(DOMAIN monthMap) = Cardinality(FoldedMonths)
    /\ DOMAIN monthMap = {monthKey(Folded[k]) : k \in DOMAIN Folded}
    /\ \A key \in DOMAIN monthMap :
          LET recs == MonthRecords(key) IN
          /\ \A k \in DOMAIN recs :
                /\ recs[k].TransactionDate.year = monthMap[key].Year
                /\ MonthNames[recs[k].TransactionDate.month] = monthMap[key].Month
          /\ monthMap[key].TotalSales = Prices(recs)
          /\ monthMap[key].SalesVolume = Quantities(recs)
    /\ \A i, j \in DOMAIN Folded :
          Folded[i].TransactionDate # Folded[j].TransactionDate
             => monthKey(Folded[i]) # monthKey(Folded[j])

\* C19 witness: records of January 2024, twice, and of January 2023 are folded.
C19_Witness ==
    /\ pos = 3
    /\ Len(MonthRecords("2024-01")) = 2
    /\ Len(MonthRecords("2023-01")) = 1
    /\ monthMap["2024-01"].SalesVolume = 3
    /\ monthMap["2024-01"].Month = "January"
    /\ monthMap["2023-01"].Year = 2023

\* the folded records of a region
RegionRecords(region) == SelectSeq(Folded, LAMBDA t : t.Region = region)

\* C20: the region dictionary has exactly one entry per distinct region of the
\* folded records, with the sum of the total prices and the sum of the
\* quantities of the records of that region.
C20_RegionMergeRule ==
    /\ DOMAIN regionMap = {Folded[k].Region : k \in DOMAIN Folded}
    /\ \A region \in DOMAIN regionMap :
          /\ regionMap[region].Region = region
          /\ regionMap[region].TotalRevenue = Prices(RegionRecords(region))
          /\ regionMap[region].ItemsSold = Quantities(RegionRecords(region))

\* C20 witness: two sales of North America with 3 items and one of Europe with
\* 3 items are folded.
C20_Witness ==
    /\ pos = 3
    /\ Len(RegionRecords("North America")) = 2
    /\ regionMap["North America"].ItemsSold = 3
    /\ regionMap["North America"].TotalRevenue = 1500
    /\ regionMap["Europe"].ItemsSold = 3

(***************************************************************************)
(* The sorting functions (SortSpec).                                       *)
(***************************************************************************)
Called(fn) == call.fn = fn

Entries(m) == {m[k] : k \in DOMAIN m}

Min(a, b) == IF a < b THEN a ELSE b

C22_TopProductsView ==
    Called("sortTopProducts") =>
        /\ Len(call.result) = Min(call.limit, Cardinality(DOMAIN productMap))
        /\ Cardinality(Elements(call.result)) = Len(call.result)
        /\ Elements(call.result) \subseteq Entries(productMap)
        /\ \A k \in 1..(Len(call.result) - 1) :
              call.result[k].PurchaseCount >= call.result[k + 1].PurchaseCount
        /\ \A out \in Entries(productMap) \ Elements(call.result) :
              \A kept \in Elements(call.result) :
                  out.PurchaseCount <= kept.PurchaseCount

\* C22 witness: of two products the one bought twice is kept, the other left out.
C22_Witness ==
    /\ Called("sortTopProducts")
    /\ call.limit = 1
    /\ Cardinality(DOMAIN productMap) = 2
    /\ Len(call.result) = 1
    /\ call.result[1].PurchaseCount = 2

C25_RecordCountIsGroups ==
    /\ ~rwWriter => dashboardData.RecordCount = Len(dashboardData.CountryRevenues)
    /\ Returned("ok") => dashboardData.RecordCount = Cardinality(DOMAIN countryMap)

\* C25 witness: a run over two rows of one country-product group has returned
\* on a store that held the sample data.
C25_Witness ==
    /\ Returned("ok")
    /\ storeAtCall.RecordCount = 2
    /\ Len(ValidRows(src)) = 2
    /\ dashboardData.RecordCount = 1

\* C26: on a store on which no load has completed (new, or after calls that
\* returned an error) every view an accessor can read under the read lock is an
\* empty sequence, a view accessor returns the empty sequence, and the snapshot
\* GetDashboardData hands out is there, with empty views.
C26_EmptyViewsBeforeFirstLoad ==
    /\ (published = <<>> /\ rwReaders > 0) =>
          \A k \in DOMAIN ViewFields : dashboardData[ViewFields[k]] = <<>>
    /\ (published = <<>> /\ clientPc = "viewRLocked") => accessed.value = <<>>
    /\ (published = <<>> /\ Returned("err")) =>
          /\ \A k \in DOMAIN ViewFields : dashboardData[ViewFields[k]] = <<>>
          /\ clientPc = "idle" =>
                /\ ENABLED GetDashboardData
                /\ \A k \in DOMAIN ViewFields : ENABLED GetView(ViewFields[k])

\* C26 witness: after a call that returned an error on a new store, a view
\* accessor has returned the empty top-products view.
C26_Witness ==
    /\ published = <<>>
    /\ Returned("err")
    /\ clientPc = "viewRLocked"
    /\ accessed.kind = "TopProducts"
    /\ ~accessed.duringRun
    /\ accessed.value = <<>>

(***************************************************************************)
(* Rows the reader skips and cells that do not parse.                      *)
(***************************************************************************)
\* the country-product dictionary of a sequence of transactions
RECURSIVE CountryDictionary(_)
CountryDictionary(txs) ==
    IF txs = <<>> THEN EmptyMap
    ELSE foldCountry(CountryDictionary(SubSeq(txs, 1, Len(txs) - 1)), txs[Len(txs)])

\* C27: a malformed row is skipped and reading goes on: the dictionaries never
\* count more than the valid rows read so far, and the country-product view of
\* a run that read its header and published is that of all the valid rows of
\* the source, those after a malformed row included.
C27_MalformedRowSkipped ==
    /\ FoldedCount(countryMap) <= Len(ValidRows(SubSeq(src, 1, pos)))
    /\ (Returned("ok") /\ ~headerFailed) =>
          /\ pos = Len(src)
          /\ Elements(dashboardData.CountryRevenues)
                = Entries(CountryDictionary(ParsedRows(Len(src))))

\* C27 witness: a run over a valid row, a malformed row and another valid row
\* has published both valid rows.
C27_Witness ==
    /\ Returned("ok")
    /\ src = <<Row100, BadRow, Row150>>
    /\ Len(dashboardData.CountryRevenues) = 2

(***************************************************************************)
(* C28: what a row whose price cells do not parse adds to its entry.       *)
(***************************************************************************)
\* the country-product key of a row
RowKey(row) == TrimSpace(Cell(row, "country")) \o "-" \o TrimSpace(Cell(row, "product_name"))

RevenueIn(m, key) == IF key \in DOMAIN m THEN m[key].TotalRevenue ELSE 0
CountIn(m, key) == IF key \in DOMAIN m THEN m[key].TransactionCount ELSE 0

\* the step that folds the row: its entry gains the revenue and one transaction
Adds(row, revenue) ==
    /\ RevenueIn(countryMap', RowKey(row)) = RevenueIn(countryMap, RowKey(row)) + revenue
    /\ CountIn(countryMap', RowKey(row)) = CountIn(countryMap, RowKey(row)) + 1

\* C28 as stated: a row whose price cell does not parse as a number is folded
\* all the same, adding 0 to the revenue of its country-product entry and 1 to
\* its transaction count.
C28_UnparsablePriceAddsNothing ==
    [][pos' = pos + 1 /\ ~Cell(src[pos'], "price").ok => Adds(src[pos'], 0)]_vars

\* C28 amended: the revenue is read off the total_price cell.  A row whose
\* total_price cell does not parse is folded all the same, adding 0 to the
\* revenue of its entry and 1 to its transaction count, whatever its price
\* cell; a row whose price cell does not parse and whose total_price cell
\* does adds its total price and 1.
C28_UnparsableTotalPriceAddsNothing ==
    [][pos' = pos + 1 =>
          /\ ~Cell(src[pos'], "total_price").ok => Adds(src[pos'], 0)
          /\ (~Cell(src[pos'], "price").ok /\ Cell(src[pos'], "total_price").ok) =>
                Adds(src[pos'], Cell(src[pos'], "total_price").v)]_vars

\* C28 witness: a sale of 1000, then a sale of the same product whose total
\* price does not parse, then a sale of 800 whose price does not parse, are
\* folded.
C28_Witness ==
    /\ pos = 3
    /\ src = <<Row100, Row0, RowPhone>>
    /\ ~Cell(src[2], "total_price").ok
    /\ ~Cell(src[3], "price").ok /\ Cell(src[3], "total_price").ok
    /\ countryMap["USA-Laptop"] = [Country |-> "USA", ProductName |-> "Laptop",
                                   TotalRevenue |-> 1000, TransactionCount |-> 2]
    /\ countryMap["UK-Phone"].TotalRevenue = 800

(***************************************************************************)
(* C29, C30: parseTransaction.                                             *)
(***************************************************************************)
\* the column each field of a Transaction is read from
TextColumns == [Country |-> "country", ProductName |-> "product_name", Region |-> "region"]
NumColumns == [Price |-> "price", TotalPrice |-> "total_price", Quantity |-> "quantity",
               StockQuantity |-> "stock_quantity"]
DateColumns == [TransactionDate |-> "transaction_date", AddedDate |-> "added_date"]

\* the record of the call holds a cell for the column
Present(column) ==
    column \in DOMAIN call.headerMap /\ call.headerMap[column] \in DOMAIN call.record

CellOf(column) == call.record[call.headerMap[column]]

\* C29: parseTransaction returns a nil error for every record and header map.
\* A field whose column is not in the header map, or whose index lies beyond
\* the record, has its zero value; a numeric field whose cell does not parse is
\* 0; every other field is parsed from its cell: a text field is the trimmed
\* cell, a numeric field the number of its cell.
C29_ParseNeverFails ==
    Called("parseTransaction") =>
        /\ call.err = "nil"
        /\ \A f \in DOMAIN TextColumns :
              call.transaction[f] =
                  IF Present(TextColumns[f]) THEN TrimSpace(CellOf(TextColumns[f])) ELSE ""
        /\ \A f \in DOMAIN NumColumns :
              call.transaction[f] =
                  IF ~Present(NumColumns[f]) THEN 0
                  ELSE IF ~CellOf(NumColumns[f]).ok THEN 0
                  ELSE CellOf(NumColumns[f]).v
        /\ \A f \in DOMAIN DateColumns :
              ~Present(DateColumns[f]) => call.transaction[f] = ZeroDate

\* C29 witness: a record one cell short of its header row, with a stock and a
\* price that do not parse: the added date is missing, the two numbers are 0,
\* and the country, total price, quantity and transaction date are parsed.
C29_Witness ==
    /\ Called("parseTransaction")
    /\ call.headerMap = HeaderIndexes
    /\ call.record = SubSeq(RowSpaced, 1, 8)
    /\ ~Present("added_date") /\ call.transaction.AddedDate = ZeroDate
    /\ call.transaction.StockQuantity = 0 /\ call.transaction.Price = 0
    /\ call.transaction.Country = "USA"
    /\ call.transaction.TotalPrice = 1000 /\ call.transaction.Quantity = 2
    /\ call.transaction.TransactionDate = [year |-> 2024, month |-> 1, day |-> 15]

\* the layouts that accept a text, by their place in the list
Accepting(text) == {k \in DOMAIN formats : Accepts(formats[k], Read(text))}

Least(S) == CHOOSE k \in S : \A j \in S : k <= j

\* what the claim expects of a date cell
FirstAccepted(cell) ==
    LET text == TrimSpace(cell) IN
    IF Accepting(text) = {} THEN ZeroDate
    ELSE Parsed(formats[Least(Accepting(text))], Read(text))

\* dates written in each of the five layouts, and texts none of them accepts
DateExamples ==
       ("2024-01-15" :> [year |-> 2024, month |-> 1, day |-> 15])
    @@ ("2024-01-15 10:30:00" :> [year |-> 2024, month |-> 1, day |-> 15])
    @@ ("01/15/2024" :> [year |-> 2024, month |-> 1, day |-> 15])
    @@ ("03-04-2024" :> [year |-> 2024, month |-> 3, day |-> 4])
    @@ ("2024/01/15" :> [year |-> 2024, month |-> 1, day |-> 15])
    @@ (" 2024-01-15 " :> [year |-> 2024, month |-> 1, day |-> 15])
    @@ ("2024-02-29" :> [year |-> 2024, month |-> 2, day |-> 29])
    @@ ("2023-02-29" :> ZeroDate)
    @@ ("15/01/2024" :> ZeroDate)
    @@ ("2024-1-5" :> ZeroDate)
    @@ ("2024-01-15T10:30:00Z" :> ZeroDate)
    @@ ("n/a" :> ZeroDate)
    @@ ("" :> ZeroDate)

\* C30: each date field whose cell is there is the parse of the first layout
\* of the list 2006-01-02, 2006-01-02 15:04:05, 01/02/2006, 01-02-2006,
\* 2006/01/02 that accepts the trimmed cell, and the zero date when none does;
\* it depends on its own cell only, whatever the other date cell holds.
C30_FirstAcceptedLayout ==
    Called("parseTransaction") =>
        \A f \in DOMAIN DateColumns :
            Present(DateColumns[f]) =>
                /\ call.transaction[f] = FirstAccepted(CellOf(DateColumns[f]))
                /\ CellOf(DateColumns[f]) \in DOMAIN DateExamples =>
                      call.transaction[f] = DateExamples[CellOf(DateColumns[f])]

\* C30 witness: the transaction date is written month-day-year between
\* hyphens, which the fourth layout is the first to accept, and the added date
\* is a text no layout accepts.
C30_Witness ==
    /\ Called("parseTransaction")
    /\ Present("transaction_date") /\ CellOf("transaction_date") = "03-04-2024"
    /\ Accepting("03-04-2024") = {4}
    /\ Present("added_date") /\ CellOf("added_date") = "15/01/2024"
    /\ call.transaction.TransactionDate = [year |-> 2024, month |-> 3, day |-> 4]
    /\ call.transaction.AddedDate = ZeroDate

(***************************************************************************)
(* C31: the four updates of one record are one unit.                       *)
(***************************************************************************)
\* the workers between mu.Lock() and mu.Unlock()
InSection == {i \in Workers : workerPc[i] \in {"fold", "foldProduct", "foldMonth", "foldRegion"}}

\* the sum of a field over the entries of a dictionary
RECURSIVE SumField(_, _)
SumField(m, field) ==
    IF DOMAIN m = {} THEN 0
    ELSE LET k == CHOOSE x \in DOMAIN m : TRUE
         IN  m[k][field] + SumField([x \in DOMAIN m \ {k} |-> m[x]], field)

\* the records the workers have taken off the queue and are done with
RecordsFolded ==
    Len(ValidRows(SubSeq(src, 1, pos))) - (IF readerPc = "send" THEN 1 ELSE 0)
        - Len(transactionCh)
        - Cardinality({i \in Workers : workerPc[i] = "lock"} \cup InSection)

\* C31: at most one worker is between mu.Lock() and mu.Unlock() at any time, and
\* whenever the aggregation mutex is free the four dictionaries hold the same
\* records: the transaction counts of the country-product dictionary add up to
\* the number of records folded so far, as the purchase counts of the product
\* dictionary do, and the month and region dictionaries agree on the sums of
\* quantity and of revenue.
C31_FourUpdatesAreOneUnit ==
    /\ Cardinality(InSection) <= 1
    /\ mu = 0 =>
          /\ InSection = {}
          /\ SumField(countryMap, "TransactionCount") = RecordsFolded
          /\ SumField(productMap, "PurchaseCount") = RecordsFolded
          /\ SumField(monthMap, "SalesVolume") = SumField(regionMap, "ItemsSold")
          /\ SumField(monthMap, "TotalSales") = SumField(regionMap, "TotalRevenue")
          /\ SumField(countryMap, "TotalRevenue") = SumField(regionMap, "TotalRevenue")

\* C31 witness: one worker is half way through the updates of the first record
\* (the country-product and product dictionaries count it, the month and
\* region dictionaries do not yet) while the other holds the second record and
\* waits for the mutex.
C31_Witness ==
    /\ numWorkers = 2
    /\ \E i, j \in Workers :
          /\ workerPc[i] = "foldMonth" /\ mu = i
          /\ workerPc[j] = "lock"
    /\ SumField(countryMap, "TransactionCount") = 1
    /\ SumField(productMap, "PurchaseCount") = 1
    /\ monthMap = EmptyMap /\ regionMap = EmptyMap
    /\ RecordsFolded = 0

(***************************************************************************)
(* C32: the views the accessors return are sorted and capped.              *)
(***************************************************************************)
SortedDescending(view, field) ==
    \A k \in 1..(Len(view) - 1) : view[k][field] >= view[k + 1][field]

ViewsSortedAndCapped(data) ==
    /\ SortedDescending(data.CountryRevenues, "TotalRevenue")
    /\ SortedDescending(data.TopProducts, "PurchaseCount")
    /\ Len(data.TopProducts) <= TopProductsLimit
    /\ SortedDescending(data.TopRegions, "TotalRevenue")
    /\ Len(data.TopRegions) <= TopRegionsLimit

\* C32: in every state of a store made by New and written by ProcessDataset and
\* LoadSampleData, GetCountryRevenues returns a sequence sorted by TotalRevenue
\* descending, GetTopProducts one sorted by PurchaseCount descending of at most
\* 20 entries, GetTopRegions one sorted by TotalRevenue descending of at most 30
\* entries.
\* The accessors hold the read lock, so they return no view while the write
\* lock is held.
C32_AccessorViewsSorted == ~rwWriter => ViewsSortedAndCapped(dashboardData)

(***************************************************************************)
(* C33: two ProcessDataset calls at the same time.                         *)
(***************************************************************************)
\* the store's views and RecordCount are those of the given dictionaries
StoreIsOf(country, product, month, region) ==
    /\ dashboardData.CountryRevenues \in sortCountryRevenues(country)
    /\ dashboardData.TopProducts \in sortTopProducts(product, TopProductsLimit)
    /\ dashboardData.MonthlySales \in sortMonthlySales(month)
    /\ dashboardData.TopRegions \in sortTopRegions(region, TopRegionsLimit)
    /\ dashboardData.RecordCount = Cardinality(DOMAIN country)

StoreIsOfCaller == StoreIsOf(countryMap, productMap, monthMap, regionMap)

StoreIsOfRival ==
    StoreIsOf(rival.countryMap, rival.productMap, rival.monthMap, rival.regionMap)

\* the store holds the last completed snapshot, and it is the work of the call
\* that completed it alone
StoreIsLastSnapshot ==
    /\ published # <<>>
    /\ dashboardData = published[Len(published)].data
    /\ IF published[Len(published)].by = "rival" THEN StoreIsOfRival ELSE StoreIsOfCaller

\* C33: when two ProcessDataset calls run at the same time on one store, each
\* builds dictionaries of its own (those of the second call hold its file and
\* nothing else, those of the caller nothing of that file), and whenever the
\* store lock is free the store is the new store or the snapshot of one call
\* alone; once both calls have returned successfully the store's views and
\* RecordCount are those of the call that took the write lock last.
C33_ConcurrentRunsDoNotMix ==
    /\ rival.pc \in {"lock", "publish", "unlock", "returned"} =>
          /\ DOMAIN rival.countryMap = {"UK-Phone", "USA-Laptop"}
          /\ rival.countryMap["USA-Laptop"].TotalRevenue = 500
          /\ "UK-Phone" \notin DOMAIN countryMap
    /\ ~rwWriter => (dashboardData = New \/ StoreIsLastSnapshot)
    /\ (Returned("ok") /\ rival.pc = "returned") =>
          /\ Len(published) = 2
          /\ published[1].by # published[2].by
          /\ StoreIsLastSnapshot

\* C33 witness: both calls have returned, the caller's published first and the
\* other call's last: the store holds the two groups of the other call's file
\* and nothing of the caller's row.
C33_Witness ==
    /\ Returned("ok") /\ rival.pc = "returned"
    /\ src = <<Row100>>
    /\ DOMAIN countryMap = {"USA-Laptop"}
    /\ countryMap["USA-Laptop"].TotalRevenue = 1000
    /\ Len(published) = 2
    /\ published[1].by = "caller" /\ published[1].data.RecordCount = 1
    /\ published[2].by = "rival"
    /\ dashboardData.RecordCount = 2
    /\ StoreIsOfRival /\ ~StoreIsOfCaller

(***************************************************************************)
(* C34: the close of the work queue.                                       *)
(***************************************************************************)
\* the queue of the current run is closed when the reader goroutine has ended,
\* and only then; a reader that ended without a header failure has consumed
\* the whole source and sent every record; one that ended after a header
\* failure has emitted the error, which waits in errorCh or has been returned
QueueClosedByReaderAtItsEnd ==
    /\ closed <=> readerPc = "done"
    /\ (closed /\ ~headerFailed) => pos = Len(src)
    /\ (headerFailed /\ readerPc \in {"close", "done"}) =>
          (errorCh # <<>> \/ Returned("err"))

\* a step that closes the queue is the reader's last and finds the queue open;
\* the closed queue stays closed; a step that adds a record to the queue is the
\* reader's and leaves the queue open
QueueClosedOnce ==
    /\ (~closed /\ closed') => (readerPc = "close" /\ readerPc' = "done")
    /\ closed => closed'
    /\ Len(transactionCh') > Len(transactionCh) =>
          (readerPc = "send" /\ ~closed /\ ~closed')

\* C34: the work queue is closed exactly once per run, by the reader goroutine
\* only and as its last step, after its last send, on the path where readCSV
\* returns nil and on the path where it returns an error; nothing is sent on
\* the closed queue, and the error is emitted before the queue is closed.
C34_QueueClosedOnceByReader ==
    [](QueueClosedByReaderAtItsEnd) /\ [][QueueClosedOnce]_vars

\* C34 witness: the header read failed, the error waits in errorCh and the
\* queue is closed.
C34_Witness ==
    /\ runs = 1
    /\ headerFailed /\ closed /\ readerPc = "done"
    /\ errorCh # <<>>
    /\ transactionCh = <<>>

(***************************************************************************)
(* C35: rows without a date in the monthly view.                           *)
(***************************************************************************)
\* the monthly view of the store counts every valid row of the source once:
\* its sales volumes add up to the quantities of the rows, and the rows whose
\* transaction date is the zero date are all in one entry, January of year 1
MonthlyViewCountsEveryRow ==
    LET rows == ParsedRows(Len(src))
        undated == SelectSeq(rows, LAMBDA t : t.TransactionDate = ZeroDate)
        view == dashboardData.MonthlySales
        zero == SelectSeq(view, LAMBDA e : e.Year = 1)
    IN  /\ SumOf([k \in DOMAIN view |-> view[k].SalesVolume]) = Quantities(rows)
        /\ undated # <<>> =>
              /\ Len(zero) = 1
              /\ zero[1].Month = "January"
              /\ zero[1].SalesVolume = Quantities(undated)
        /\ undated = <<>> => zero = <<>>

\* C35: every structurally valid row is in exactly one entry of the monthly
\* view, also when its transaction date is missing or does not parse: such
\* rows share the entry of year 1, month "January", and the sales volumes of
\* the published monthly view add up to the quantities of all valid rows.
C35_UndatedRowsCounted == Returned("ok") => MonthlyViewCountsEveryRow

(***************************************************************************)
(* C36: the response of a view handler.                                    *)
(***************************************************************************)
\* C36: in the response of a view handler "data" and "updated_at" are those of
\* one snapshot of the store, and "count" is the length of "data", also when a
\* publish step runs between the handler's two accessor calls.
C36_ResponseOfOneSnapshot ==
    response.stage = "written" =>
        /\ response.count = Len(response.data)
        /\ \E snapshot \in CompletedSnapshots :
              /\ snapshot[response.kind] = response.data
              /\ snapshot.LastUpdated = response.updated_at

(***************************************************************************)
(* C37: the program serves only after its initial load.                    *)
(***************************************************************************)
\* the initial load main chose has completed
InitialLoadCompleted ==
    IF main.dataFile THEN runs = 1 /\ Returned("ok")
    ELSE runs = 0 /\ dashboardData.CountryRevenues \in SampleCountryRevenues

\* C37: the server is created and listens only after the initial load has
\* completed, which is ProcessDataset when a data file is configured and
\* LoadSampleData otherwise; when ProcessDataset returns an error the process
\* exits and no request is ever served.
C37_ServesOnlyAfterInitialLoad ==
    /\ main.pc \in {"loaded", "created", "serving"} => InitialLoadCompleted
    /\ response # NoResponse => main.pc = "serving"
    /\ runs > 0 => main.dataFile
    /\ dashboardData.CountryRevenues \in SampleCountryRevenues => ~main.dataFile
    /\ Returned("err") => main.pc \in {"process", "exit"} /\ response = NoResponse
    /\ main.pc = "exit" => Returned("err")

C37_Witness ==
    /\ main.pc = "serving"
    /\ main.dataFile
    /\ Returned("ok")
    /\ response.stage = "written"
    /\ response.data # <<>>
    /\ response.updated_at = dashboardData.LastUpdated

(***************************************************************************)
(* C38: the spelling and the order of the columns.                         *)
(***************************************************************************)
KnownColumns(layout) ==
    {<<layout[i].plain, layout[i].of>> : i \in {j \in DOMAIN layout : layout[j].plain \in DOMAIN HeaderIndexes}}

\* two files that differ in the case of the header names, the white space
\* around them, the order of the columns and the columns the parser does not
\* know
SameColumns(a, b) == KnownColumns(a) = KnownColumns(b)

NamesDistinct(layout) ==
    \A i, j \in DOMAIN layout : layout[i].plain = layout[j].plain => i = j

\* C38 as stated: the views do not depend on the case of the header names, the
\* white space around them or the order of the columns, and a column of an
\* unknown name is ignored.
C38_ViewsIndependentOfHeader ==
    call.fn = "readCSV" =>
        \A other \in Layouts :
            SameColumns(other, call.layout) => ViewsOf(Load(other, src)) = call.views

\* C38: when no two columns of the header have the same name once in lower
\* case and trimmed, the views do not depend on the case of the header names,
\* the white space around them or the order of the columns, and a column of an
\* unknown name is ignored.
C38_ViewsIndependentOfDistinctHeader ==
    (call.fn = "readCSV" /\ NamesDistinct(call.layout)) =>
        \A other \in Layouts :
            (NamesDistinct(other) /\ SameColumns(other, call.layout)) =>
                ViewsOf(Load(other, src)) = call.views

C38_Witness ==
    /\ call.fn = "readCSV"
    /\ call.layout = Reverse(SpelledLayout)
    /\ src = <<RowSpaced, RowPhone>>
    /\ call.views = ViewsOf(Load(<<UnknownColumn>> \o PlainLayout, src))
    /\ \A views \in call.views :
          /\ Len(views.CountryRevenues) = 2
          /\ views.CountryRevenues[1].Country = "USA"
          /\ views.CountryRevenues[1].TotalRevenue = 1000

(***************************************************************************)
(* What does hold of the code where a claim above fails.                   *)
(***************************************************************************)
\* when the header was read, the counts of the published country-product view
\* add up to the number of valid rows
CountedOnceWhenHeaderRead ==
    (Returned("ok") /\ ~headerFailed) =>
        SumTransactionCount(dashboardData.CountryRevenues) = Len(ValidRows(src))

\* with a single worker the published stock is the last reading that is not zero
StockWithOneWorker ==
    (numWorkers = 1 /\ Returned("ok")) =>
        \A k \in DOMAIN dashboardData.TopProducts :
            dashboardData.TopProducts[k].CurrentStock
                = LastNonZeroStock(src, dashboardData.TopProducts[k].ProductName)

\* the pipeline does not deadlock: a call returns unless row reads keep failing
ReturnsUnlessReadsFail == (callerPc = "select") ~> (callerPc = "returned" \/ ioFailed)

\* the transaction count, not the quantity, is what a product entry counts
PurchaseCountIsRecords ==
    \A product \in DOMAIN productMap :
        productMap[product].PurchaseCount = Len(ProductRecords(product))

\* the stock of a later record overwrites the current stock where it is positive
RECURSIVE StockByCode(_)
StockByCode(readings) ==
    IF Len(readings) = 1 THEN readings[1]
    ELSE LET last == readings[Len(readings)]
         IN  IF last > 0 THEN last
             ELSE StockByCode(SubSeq(readings, 1, Len(readings) - 1))

StockOverwrittenWhenPositive ==
    \A product \in DOMAIN productMap :
        productMap[product].CurrentStock = StockByCode(StockOf(ProductRecords(product)))

\* pairs without a hyphen in their names have an entry of their own
OneEntryPerPlainPair ==
    \A i, j \in DOMAIN Folded :
        (/\ <<Folded[i].Country, Folded[i].ProductName>>
               # <<Folded[j].Country, Folded[j].ProductName>>
         /\ {Folded[i].Country, Folded[j].Country} \subseteq {"USA", "UK"})
            => countryKey(Folded[i]) # countryKey(Folded[j])

\* C32 of ProcessDataset alone: every snapshot it publishes is sorted and
\* capped, whether or not the store held the sample data before (SampleSpec).
PublishedViewsSorted ==
    \A k \in DOMAIN published : ViewsSortedAndCapped(published[k].data)

\* C35 when the header was read: the published monthly view counts every valid
\* row, the undated ones in January of year 1 (Spec).
UndatedRowsCountedWhenHeaderRead ==
    (Returned("ok") /\ ~headerFailed) => MonthlyViewCountsEveryRow

\* C36 of "count" alone, and of a response made with no publish step in
\* between (HandlerSpec).
ResponseCountIsLength ==
    response.stage # "none" =>
        /\ response.count = Len(response.data)
        /\ (response.stage = "written" /\ (runs = 0 \/ Returned("err"))) =>
              (response.data = <<>> /\ response.updated_at = 0)
====
